---- MODULE Spec2Model ----
(***************************************************************************)
(* Model of the brainfuck parsing pipeline: the token classifier           *)
(* (TryFrom<char> for Instruction), the run fuser (TryFrom<&mut Peekable>  *)
(* for InstructionWithIndex) and the IR assembler (Parser::parse).         *)
(*                                                                         *)
(* A source string is kept run-length encoded: a sequence of blocks        *)
(* [ch, n] standing for n copies of the character ch.  The parser walks    *)
(* it one character at a time, exactly as str::char_indices does, and the  *)
(* byte offset of a character is the sum of the UTF-8 widths before it.    *)
(***************************************************************************)
EXTENDS Integers, Sequences, FiniteSets

VARIABLES
    src,          \* the &str handed to Parser::parse (run-length encoded)
    it,           \* string.char_indices().peekable(): [blk, k, off]
    pc,           \* position of the parse call: "scan", "fuse" or "done"
    tok,          \* the fuser's locals: [instruction, beginning, end]
    ir,           \* Parser.ir
    brackets,     \* the local Vec<JumpIndex> of Parser::parse
    warnings,     \* Parser.warnings
    result,       \* the ParseResult returned by Parser::parse
    vm,           \* the VM: [pc, head, tape, i, state, ...]
    reader,       \* the input stream handed to VM::run
    writer,       \* the output stream handed to VM::run
    base,         \* the locals of Instructions::execute on the same source
    first         \* what an earlier run of the binary did

machine == <<vm, reader, writer, base, first>>

vars == <<src, it, pc, tok, ir, brackets, warnings, result, vm, reader, writer,
          base, first>>

-----------------------------------------------------------------------------
(* Bounds *)

MaxLen == 4       \* longest source over the full alphabet
MaxNest == 6      \* longest source over the bracket alphabet
MaxWraps == 1     \* longest run, in multiples of the wrap period
MaxInput == 2     \* longest input stream
MaxJumps == 255   \* most backward jumps of one run
MaxCount == 3     \* largest payload handed to Instruction::combine
MaxAgain == 3     \* longest source handed to a second call of parse

(* Program constants *)

CELL_MODULUS == 256
TAPE_LENGTH == 30000

-----------------------------------------------------------------------------
(* Characters.  "c" is an ASCII comment character, "u2" a comment          *)
(* character whose UTF-8 encoding takes two bytes.                         *)

InstructionChars == {"<", ">", "+", "-", ",", ".", "[", "]"}
Alphabet == InstructionChars \cup {"c", "u2"}
BracketAlphabet == {"[", "]", "+", "-"}
WrapChars == {"+", "-", "<", ">"}

Width(ch) == IF ch = "u2" THEN 2 ELSE 1

-----------------------------------------------------------------------------
(* Instruction (ir.rs) *)

Instr(kind, arg) == [k |-> kind, a |-> arg]

NOP == Instr("NOP", 0)
Zero == Instr("Zero", 0)
None == Instr("None", 0)

CountedKinds == {"Left", "Right", "Add", "Sub", "Input", "Output"}

\* TryFrom<char> for Instruction
TryFromChar(c) ==
    CASE c = "<" -> Instr("Left", 1)
      [] c = ">" -> Instr("Right", 1)
      [] c = "+" -> Instr("Add", 1)
      [] c = "-" -> Instr("Sub", 1)
      [] c = "," -> Instr("Input", 1)
      [] c = "." -> Instr("Output", 1)
      [] c = "[" -> Instr("Open", 1)
      [] c = "]" -> Instr("Close", 1)
      [] OTHER -> None

\* is_degenerate without the test of the payload
is_degenerate_Never(i) == FALSE

\* Instruction::is_degenerate
is_degenerate(i) == i.k \in CountedKinds /\ i.a = 0

\* the match of Instruction::combine, before the degenerate check
CombineRaw(s, o) ==
    CASE s.k = "Left" /\ o.k = "Left" -> Instr("Left", s.a + o.a)
      [] s.k = "Right" /\ o.k = "Right" -> Instr("Right", s.a + o.a)
      [] s.k = "Left" /\ o.k = "Right" ->
            IF o.a > s.a THEN Instr("Right", o.a - s.a) ELSE Instr("Left", s.a - o.a)
      [] s.k = "Right" /\ o.k = "Left" ->
            IF s.a > o.a THEN Instr("Right", s.a - o.a) ELSE Instr("Left", o.a - s.a)
      [] s.k = "Add" /\ o.k = "Add" -> Instr("Add", s.a + o.a)
      [] s.k = "Sub" /\ o.k = "Sub" -> Instr("Sub", s.a + o.a)
      [] s.k = "Add" /\ o.k = "Sub" ->
            IF s.a > o.a THEN Instr("Add", s.a - o.a) ELSE Instr("Sub", o.a - s.a)
      [] s.k = "Sub" /\ o.k = "Add" ->
            IF o.a > s.a THEN Instr("Add", o.a - s.a) ELSE Instr("Sub", s.a - o.a)
      [] s.k = "Input" /\ o.k = "Input" -> Instr("Input", s.a + o.a)
      [] s.k = "Output" /\ o.k = "Output" -> Instr("Output", s.a + o.a)
      [] s.k = "Zero" /\ o.k = "Zero" -> Zero
      [] OTHER -> None

\* combine without the degenerate check
combine_KeepDegenerate(s, o) == CombineRaw(s, o)

\* a combine in which a cancelled run takes up the run that follows it
combine_NopAbsorbs(s, o) ==
    LET new_instruction == CombineRaw(s, o)
    IN  IF s.k = "NOP" /\ o.k \in {"Left", "Right", "Add", "Sub"} THEN o
        ELSE IF new_instruction = None THEN None
        ELSE IF is_degenerate(new_instruction) THEN NOP
        ELSE new_instruction

\* Instruction::combine
combine(s, o) ==
    LET new_instruction == CombineRaw(s, o)
    IN  IF new_instruction = None THEN None
        ELSE IF is_degenerate(new_instruction) THEN NOP
        ELSE new_instruction

\* Instruction::modify_argument
modify_argument(i, v) ==
    IF i.k \in {"NOP", "Zero"} THEN i ELSE Instr(i.k, v)

\* Display for Instruction, as used for the bracket of a Fatal
to_string(i) ==
    CASE i.k = "Open" -> "["
      [] i.k = "Close" -> "]"
      [] OTHER -> "?"

\* the meta-instruction test without the test of the payload
TryFromSlice_AnySub(s) ==
    IF Len(s) = 1 /\ s[1].k = "Sub" THEN Zero ELSE None

\* TryFrom<&[Instruction]> for Instruction: the meta-instruction of a loop body
TryFromSlice(s) ==
    IF Len(s) = 1 /\ s[1].k = "Sub" /\ s[1].a = 1 THEN Zero ELSE None

-----------------------------------------------------------------------------
(* The character iterator: string.char_indices().peekable() *)

ItStart == [blk |-> 1, k |-> 0, off |-> 0]

HasNext == it.blk <= Len(src)

PeekChar == src[it.blk].ch

Advance ==
    LET b == src[it.blk]
    IN  IF it.k + 1 >= b.n
        THEN [blk |-> it.blk + 1, k |-> 0, off |-> it.off + Width(b.ch)]
        ELSE [blk |-> it.blk, k |-> it.k + 1, off |-> it.off + Width(b.ch)]

\* byte offset at which block b of s starts
RECURSIVE BlockStart(_, _)
BlockStart(s, b) ==
    IF b <= 1 THEN 0 ELSE BlockStart(s, b - 1) + s[b - 1].n * Width(s[b - 1].ch)

Min(a, b) == IF a < b THEN a ELSE b
Max(a, b) == IF a > b THEN a ELSE b

\* the characters of block b of s whose byte offset lies in [from, to]
BlockSlice(s, b, from, to) ==
    LET w == Width(s[b].ch)
        st == BlockStart(s, b)
        lo == Max(0, (from - st + w - 1) \div w)
        hi == Min(s[b].n - 1, IF to < st THEN -1 ELSE (to - st) \div w)
    IN  IF hi < lo THEN <<>> ELSE [j \in 1..(hi - lo + 1) |-> s[b].ch]

RECURSIVE SliceFrom(_, _, _, _)
SliceFrom(s, b, from, to) ==
    IF b > Len(s) THEN <<>>
    ELSE BlockSlice(s, b, from, to) \o SliceFrom(s, b + 1, from, to)

\* String::from(&string[beginning..=end])
Slice(s, from, to) == SliceFrom(s, 1, from, to)

-----------------------------------------------------------------------------
(* Sources *)

Unit(ch) == [ch |-> ch, n |-> 1]

StringsOver(chars, maxlen) ==
    UNION {[1..n -> {Unit(ch) : ch \in chars}] : n \in 0..maxlen}

Period(ch) == IF ch \in {"+", "-"} THEN CELL_MODULUS ELSE TAPE_LENGTH

RunSources ==
    {<<[ch |-> ch, n |-> w * Period(ch)]>> : ch \in WrapChars, w \in 1..MaxWraps}

Sources ==
    StringsOver(Alphabet, MaxLen) \cup StringsOver(BracketAlphabet, MaxNest)
        \cup RunSources

-----------------------------------------------------------------------------
(* Parser::default() followed by the entry of Parser::parse *)

Pending == [tag |-> "Pending", position |-> 0, bracket |-> ""]
Ok == [tag |-> "Ok", position |-> 0, bracket |-> ""]
MismatchedBracket(position, bracket) ==
    [tag |-> "Err", position |-> position, bracket |-> bracket]

NoToken == [instruction |-> None, beginning |-> 0, end |-> 0]

\* the tape keeps the cells that are not zero
EmptyTape == [x \in {} |-> 0]

\* no VM constructed yet
NoVM == [pc |-> 0, head |-> 0, tape |-> EmptyTape, i |-> 0, jumps |-> 0,
         state |-> "idle", cause |-> "", build |-> "any"]

\* a stream nothing was read from, and one nothing was written to
NewReader == [stream |-> <<>>, closed |-> FALSE, pos |-> 0]
NewWriter == <<>>

\* Instructions::execute not entered yet: its pc is a position [blk, k] of
\* the source, its output is kept apart from the VM's
NoBase == [blk |-> 1, k |-> 0, head |-> 0, tape |-> EmptyTape, pos |-> 0,
           out |-> <<>>, jumps |-> 0, state |-> "idle"]

\* no earlier run
NoOutcome ==
    [run |-> "none", src |-> <<>>, out |-> <<>>, pos |-> 0, build |-> "any"]

Init ==
    /\ src \in Sources
    /\ it = ItStart
    /\ pc = "scan"
    /\ tok = NoToken
    /\ ir = <<>>
    /\ brackets = <<>>
    /\ warnings = <<>>
    /\ result = Pending
    /\ vm = NoVM
    /\ reader = NewReader
    /\ writer = NewWriter
    /\ base = NoBase
    /\ first = NoOutcome

-----------------------------------------------------------------------------
(* The run fuser: TryFrom<&mut Peekable<I>> for InstructionWithIndex *)

\* the outer loop takes a character that is not an instruction
ScanSkip ==
    /\ pc = "scan"
    /\ HasNext
    /\ TryFromChar(PeekChar) = None
    /\ it' = Advance
    /\ UNCHANGED <<src, pc, tok, ir, brackets, warnings, result>>
    /\ UNCHANGED machine

\* the outer loop takes the first instruction character of a group
ScanBegin ==
    /\ pc = "scan"
    /\ HasNext
    /\ TryFromChar(PeekChar) # None
    /\ tok' = [instruction |-> TryFromChar(PeekChar),
               beginning |-> it.off, end |-> it.off]
    /\ it' = Advance
    /\ pc' = "fuse"
    /\ UNCHANGED <<src, ir, brackets, warnings, result>>
    /\ UNCHANGED machine

\* a condition of the inner loop that lets any two instructions of one
\* kind combine
NextInstruction_FuseSame ==
    IF ~HasNext THEN None
    ELSE LET e == TryFromChar(PeekChar)
         IN  IF e = None THEN None
             ELSE IF e.k = tok.instruction.k
                  THEN Instr(e.k, tok.instruction.a + e.a)
                  ELSE combine(tok.instruction, e)

\* the condition of the inner loop: the peeked character, classified and
\* combined with the running instruction
NextInstruction ==
    IF ~HasNext THEN None
    ELSE LET e == TryFromChar(PeekChar)
         IN  IF e = None THEN None ELSE combine(tok.instruction, e)

\* an iteration of the inner loop that leaves end where it was
FuseStep_KeepEnd ==
    /\ pc = "fuse"
    /\ NextInstruction # None
    /\ tok' = [instruction |-> NextInstruction,
               beginning |-> tok.beginning, end |-> tok.end]
    /\ it' = Advance
    /\ UNCHANGED <<src, pc, ir, brackets, warnings, result>>
    /\ UNCHANGED machine

\* one iteration of the inner loop
FuseStep ==
    /\ pc = "fuse"
    /\ NextInstruction # None
    /\ tok' = [instruction |-> NextInstruction,
               beginning |-> tok.beginning, end |-> it.off]
    /\ it' = Advance
    /\ UNCHANGED <<src, pc, ir, brackets, warnings, result>>
    /\ UNCHANGED machine

\* the inner loop is over and try_from returns Ok(tok)
Fused == pc = "fuse" /\ NextInstruction = None

-----------------------------------------------------------------------------
(* The IR assembler: the body of the loop of Parser::parse *)

JumpIndex(instruction, jump_index, index) ==
    [instruction |-> instruction, jump_index |-> jump_index, index |-> index]

Warning(beginning, end, line) ==
    [beginning |-> beginning, end |-> end, line |-> line]

\* Vec::pop, for the element and for what is left
Top(stack) == stack[Len(stack)]

\* a pop that leaves the element on the stack
Pop_Keep(stack) == stack

Pop(stack) == SubSeq(stack, 1, Len(stack) - 1)

\* instruction.is_open()
AssembleOpen ==
    /\ Fused
    /\ tok.instruction.k = "Open"
    /\ brackets' = Append(brackets,
                          JumpIndex(tok.instruction, Len(ir), tok.beginning))
    /\ ir' = Append(ir, tok.instruction)
    /\ pc' = "scan"
    /\ UNCHANGED <<src, it, tok, warnings, result>>
    /\ UNCHANGED machine

\* the Fatal carrying the IR index in place of the byte offset
AssembleCloseMismatched_IrIndex ==
    /\ Fused
    /\ tok.instruction.k = "Close"
    /\ brackets = <<>>
    /\ result' = MismatchedBracket(Len(ir), to_string(tok.instruction))
    /\ pc' = "done"
    /\ UNCHANGED <<src, it, tok, ir, brackets, warnings>>
    /\ UNCHANGED machine

\* instruction.is_close(), brackets.pop() is None: the ? returns the Fatal
AssembleCloseMismatched ==
    /\ Fused
    /\ tok.instruction.k = "Close"
    /\ brackets = <<>>
    /\ result' = MismatchedBracket(tok.beginning, to_string(tok.instruction))
    /\ pc' = "done"
    /\ UNCHANGED <<src, it, tok, ir, brackets, warnings>>
    /\ UNCHANGED machine

\* the drain starting one before the Open
AssembleCloseMeta_DrainOuter ==
    /\ Fused
    /\ tok.instruction.k = "Close"
    /\ brackets # <<>>
    /\ LET open == Top(brackets).jump_index
           meta_instruction == TryFromSlice(SubSeq(ir, open + 2, Len(ir)))
       IN  /\ meta_instruction # None
           /\ ir' = Append(SubSeq(ir, 1, open - 1), meta_instruction)
    /\ brackets' = Pop(brackets)
    /\ pc' = "scan"
    /\ UNCHANGED <<src, it, tok, warnings, result>>
    /\ UNCHANGED machine

\* the drain starting one past the Open
AssembleCloseMeta_KeepOpen ==
    /\ Fused
    /\ tok.instruction.k = "Close"
    /\ brackets # <<>>
    /\ LET open == Top(brackets).jump_index
           meta_instruction == TryFromSlice(SubSeq(ir, open + 2, Len(ir)))
       IN  /\ meta_instruction # None
           /\ ir' = Append(SubSeq(ir, 1, open + 1), meta_instruction)
    /\ brackets' = Pop(brackets)
    /\ pc' = "scan"
    /\ UNCHANGED <<src, it, tok, warnings, result>>
    /\ UNCHANGED machine

\* instruction.is_close(), the loop body is a meta-instruction
AssembleCloseMeta ==
    /\ Fused
    /\ tok.instruction.k = "Close"
    /\ brackets # <<>>
    /\ LET open == Top(brackets).jump_index
           meta_instruction == TryFromSlice(SubSeq(ir, open + 2, Len(ir)))
       IN  /\ meta_instruction # None
           /\ ir' = Append(SubSeq(ir, 1, open), meta_instruction)
    /\ brackets' = Pop(brackets)
    /\ pc' = "scan"
    /\ UNCHANGED <<src, it, tok, warnings, result>>
    /\ UNCHANGED machine

\* instruction.is_close(), normal loop
AssembleCloseLoop ==
    /\ Fused
    /\ tok.instruction.k = "Close"
    /\ brackets # <<>>
    /\ LET open == Top(brackets).jump_index
           instruction_index == Len(ir)
       IN  /\ TryFromSlice(SubSeq(ir, open + 2, Len(ir))) = None
           /\ ir' = Append([ir EXCEPT ![open + 1] =
                                modify_argument(@, instruction_index)],
                           modify_argument(tok.instruction, open))
    /\ brackets' = Pop(brackets)
    /\ pc' = "scan"
    /\ UNCHANGED <<src, it, tok, warnings, result>>
    /\ UNCHANGED machine

\* the warning ending one past the run
AssembleNop_EndPastRun ==
    /\ Fused
    /\ tok.instruction.k = "NOP"
    /\ warnings' = Append(warnings,
                          Warning(tok.beginning, tok.end + 1,
                                  Slice(src, tok.beginning, tok.end + 1)))
    /\ ir' = Append(ir, tok.instruction)
    /\ pc' = "scan"
    /\ UNCHANGED <<src, it, tok, brackets, result>>
    /\ UNCHANGED machine

\* the warning inserted at the front of the list
AssembleNop_Prepend ==
    /\ Fused
    /\ tok.instruction.k = "NOP"
    /\ warnings' = <<Warning(tok.beginning, tok.end,
                             Slice(src, tok.beginning, tok.end))>> \o warnings
    /\ ir' = Append(ir, tok.instruction)
    /\ pc' = "scan"
    /\ UNCHANGED <<src, it, tok, brackets, result>>
    /\ UNCHANGED machine

\* the cancelling run ending the parse, as Expressions::from_str does
AssembleNop_Abort ==
    /\ Fused
    /\ tok.instruction.k = "NOP"
    /\ result' = [tag |-> "Err", position |-> tok.beginning, bracket |-> ""]
    /\ pc' = "done"
    /\ UNCHANGED <<src, it, tok, ir, brackets, warnings>>
    /\ UNCHANGED machine

\* instruction.is_nop()
AssembleNop ==
    /\ Fused
    /\ tok.instruction.k = "NOP"
    /\ warnings' = Append(warnings,
                          Warning(tok.beginning, tok.end,
                                  Slice(src, tok.beginning, tok.end)))
    /\ ir' = Append(ir, tok.instruction)
    /\ pc' = "scan"
    /\ UNCHANGED <<src, it, tok, brackets, result>>
    /\ UNCHANGED machine

\* a push at the front of the IR
AssemblePlain_Prepend ==
    /\ Fused
    /\ tok.instruction.k \notin {"Open", "Close", "NOP"}
    /\ ir' = <<tok.instruction>> \o ir
    /\ pc' = "scan"
    /\ UNCHANGED <<src, it, tok, brackets, warnings, result>>
    /\ UNCHANGED machine

\* any other instruction is pushed as it is
AssemblePlain ==
    /\ Fused
    /\ tok.instruction.k \notin {"Open", "Close", "NOP"}
    /\ ir' = Append(ir, tok.instruction)
    /\ pc' = "scan"
    /\ UNCHANGED <<src, it, tok, brackets, warnings, result>>
    /\ UNCHANGED machine

\* the Fatal carrying the bottom of the stack
FinishMismatched_Bottom ==
    /\ pc = "scan"
    /\ ~HasNext
    /\ brackets # <<>>
    /\ LET mismatched == brackets[1]
       IN  result' = MismatchedBracket(mismatched.index,
                                       to_string(mismatched.instruction))
    /\ brackets' = Pop(brackets)
    /\ pc' = "done"
    /\ UNCHANGED <<src, it, tok, ir, warnings>>
    /\ UNCHANGED machine

\* the source is exhausted with an open bracket left on the stack
FinishMismatched ==
    /\ pc = "scan"
    /\ ~HasNext
    /\ brackets # <<>>
    /\ LET mismatched == Top(brackets)
       IN  result' = MismatchedBracket(mismatched.index,
                                       to_string(mismatched.instruction))
    /\ brackets' = Pop(brackets)
    /\ pc' = "done"
    /\ UNCHANGED <<src, it, tok, ir, warnings>>
    /\ UNCHANGED machine

\* a parse that returns Ok with characters left in the source
FinishOk_Early ==
    /\ pc = "scan"
    /\ brackets = <<>>
    /\ result' = Ok
    /\ pc' = "done"
    /\ UNCHANGED <<src, it, tok, ir, brackets, warnings>>
    /\ UNCHANGED machine

\* the source is exhausted and every bracket was closed
FinishOk ==
    /\ pc = "scan"
    /\ ~HasNext
    /\ brackets = <<>>
    /\ result' = Ok
    /\ pc' = "done"
    /\ UNCHANGED <<src, it, tok, ir, brackets, warnings>>
    /\ UNCHANGED machine

Next ==
    \/ ScanSkip
    \/ ScanBegin
    \/ FuseStep
    \/ AssembleOpen
    \/ AssembleCloseMismatched
    \/ AssembleCloseMeta
    \/ AssembleCloseLoop
    \/ AssembleNop
    \/ AssemblePlain
    \/ FinishMismatched
    \/ FinishOk

Spec == Init /\ [][Next]_vars

\* the loops of try_from and of parse never wait: a parse that can step does
FairSpec == Spec /\ WF_vars(Next)

-----------------------------------------------------------------------------
(* Parser::parse called again on the Parser of a successful parse.  The     *)
(* source is parsed by a Parser of its own first, and `first` keeps that   *)
(* IR and, from the second call on, the length the IR had before it.       *)

AgainSources == StringsOver({"[", "]", "+", "-", "c"}, MaxAgain)

InitAgain ==
    /\ src \in AgainSources
    /\ it = ItStart
    /\ pc = "scan"
    /\ tok = NoToken
    /\ ir = <<>>
    /\ brackets = <<>>
    /\ warnings = <<>>
    /\ result = Pending
    /\ vm = NoVM
    /\ reader = NewReader
    /\ writer = NewWriter
    /\ base = NoBase
    /\ first = NoOutcome

\* Parser::default() and the entry of parse on another, shorter source
NewParser ==
    /\ pc = "done"
    /\ result = Ok
    /\ first = NoOutcome
    /\ first' = [NoOutcome EXCEPT !.run = "alone", !.src = src, !.out = ir]
    /\ src' \in {s \in AgainSources : Len(s) < MaxAgain}
    /\ it' = ItStart
    /\ pc' = "scan"
    /\ tok' = NoToken
    /\ ir' = <<>>
    /\ brackets' = <<>>
    /\ warnings' = <<>>
    /\ result' = Pending
    /\ UNCHANGED <<vm, reader, writer, base>>

\* a second call that starts from an empty IR and no warnings
ParseAgain_Replace ==
    /\ pc = "done"
    /\ result = Ok
    /\ first.run = "alone"
    /\ first' = [first EXCEPT !.run = "again", !.pos = Len(ir)]
    /\ src' = first.src
    /\ it' = ItStart
    /\ pc' = "scan"
    /\ tok' = NoToken
    /\ brackets' = <<>>
    /\ result' = Pending
    /\ ir' = <<>>
    /\ warnings' = <<>>
    /\ UNCHANGED <<vm, reader, writer, base>>

\* the entry of a second call of parse on the same Parser: brackets and
\* the iterator are new, self.ir and self.warnings stay
ParseAgain ==
    /\ pc = "done"
    /\ result = Ok
    /\ first.run = "alone"
    /\ first' = [first EXCEPT !.run = "again", !.pos = Len(ir)]
    /\ src' = first.src
    /\ it' = ItStart
    /\ pc' = "scan"
    /\ tok' = NoToken
    /\ brackets' = <<>>
    /\ result' = Pending
    /\ UNCHANGED <<ir, warnings, vm, reader, writer, base>>

NextAgain ==
    \/ Next
    \/ NewParser
    \/ ParseAgain

SpecAgain == InitAgain /\ [][NextAgain]_vars

-----------------------------------------------------------------------------
(* The virtual machine (virtual_machine.rs).  A head that wrapped below    *)
(* zero in a build without overflow checks is kept as the negative number  *)
(* h that stands for the usize 2^64 + h; vm.build records which of the     *)
(* two builds the run has shown itself to be.                              *)

InputBytes == {0, 1, CELL_MODULUS - 1}

Flush == [op |-> "flush", b |-> 0]
Write(b) == [op |-> "write", b |-> b]

\* a VM that starts on the tape and the head of the VM before it
VMNew_StaleTape ==
    /\ pc = "done"
    /\ result = Ok
    /\ vm.state = "idle"
    /\ vm' = [vm EXCEPT !.state = "running", !.pc = 0, !.i = 0, !.jumps = 0,
                        !.build = first.build]
    /\ UNCHANGED <<src, it, pc, tok, ir, brackets, warnings, result,
                   reader, writer, base, first>>

\* VM::new, called on the IR of a successful parse
VMNew ==
    /\ pc = "done"
    /\ result = Ok
    /\ vm.state = "idle"
    /\ vm' = [NoVM EXCEPT !.state = "running", !.build = first.build]
    /\ UNCHANGED <<src, it, pc, tok, ir, brackets, warnings, result,
                   reader, writer, base, first>>

\* a test that takes the last instruction for the end of the IR
done_BeforeLast == vm.pc + 1 >= Len(ir)

\* VM::done
done == vm.pc >= Len(ir)

\* VM::ir_instruction
ir_instruction == ir[vm.pc + 1]

\* the index is inside [u8; TAPE_LENGTH]
InRange(h) == 0 <= h /\ h < TAPE_LENGTH

\* VM::cell
Cell(tape, h) == IF h \in DOMAIN tape THEN tape[h] ELSE 0
cell == Cell(vm.tape, vm.head)

\* an assignment that reaches every cell that is not zero
Store_Whole(tape, h, v) ==
    IF v = 0
    THEN EmptyTape
    ELSE [x \in DOMAIN tape \cup {h} |-> v]

\* an assignment through VM::cell_mut
Store(tape, h, v) ==
    IF v = 0
    THEN [x \in DOMAIN tape \ {h} |-> tape[x]]
    ELSE [x \in DOMAIN tape \cup {h} |-> IF x = h THEN v ELSE tape[x]]

\* u8::wrapping_add of `a as u8`
wrapping_add(c, a) == (c + (a % CELL_MODULUS)) % CELL_MODULUS

\* a subtraction that stops at zero, as u8::saturating_sub does
wrapping_sub_Saturating(c, a) ==
    IF c < a % CELL_MODULUS THEN 0 ELSE c - (a % CELL_MODULUS)

\* u8::wrapping_sub of `a as u8`
wrapping_sub(c, a) == (c - (a % CELL_MODULUS)) % CELL_MODULUS

\* a loop that goes on behind a panic
Stepping_BehindPanic(kind) ==
    vm.state \in {"running", "panicked"} /\ ~done /\ ir_instruction.k = kind

\* the loop of VM::run is at an instruction of this kind
Stepping(kind) ==
    vm.state = "running" /\ ~done /\ ir_instruction.k = kind

\* a panic that unwinds out of VM::run
Panic(cause) == [vm EXCEPT !.state = "panicked", !.cause = cause]

\* VM::run borrows the IR and touches nothing else
Parsed ==
    UNCHANGED <<src, it, pc, tok, ir, brackets, warnings, result, base, first>>

\* the loop of VM::run ends
VMDone ==
    /\ vm.state = "running"
    /\ done
    /\ vm' = [vm EXCEPT !.state = "halted"]
    /\ Parsed
    /\ UNCHANGED <<reader, writer>>

\* the head after Left(a) when the subtractions do not underflow
LeftHead(h, a) ==
    IF h < 0 THEN h - a
    ELSE IF a > h THEN TAPE_LENGTH - (a - h)
    ELSE h - a

\* 30_000 - (a - self.head) underflows
LeftUnderflows(h, a) == h >= 0 /\ a > h /\ a - h > TAPE_LENGTH

\* Expression::Left
VMLeft ==
    /\ Stepping("Left")
    /\ ~LeftUnderflows(vm.head, ir_instruction.a)
    /\ vm' = [vm EXCEPT !.head = LeftHead(vm.head, ir_instruction.a),
                        !.pc = vm.pc + 1]
    /\ Parsed
    /\ UNCHANGED <<reader, writer>>

\* Expression::Left when 30_000 - (a - self.head) underflows: a panic with
\* overflow checks, a wrapped usize without them
VMLeftUnderflow ==
    /\ Stepping("Left")
    /\ LeftUnderflows(vm.head, ir_instruction.a)
    /\ \/ /\ vm.build \in {"any", "debug"}
          /\ vm' = [Panic("overflow") EXCEPT !.build = "debug"]
       \/ /\ vm.build \in {"any", "release"}
          /\ vm' = [vm EXCEPT
                       !.head = TAPE_LENGTH - (ir_instruction.a - vm.head),
                       !.pc = vm.pc + 1,
                       !.build = "release"]
    /\ Parsed
    /\ UNCHANGED <<reader, writer>>

\* 2^64 mod 30,000, by squaring 2^16 twice: usize is 64 bits wide
USIZE_MOD_TAPE ==
    LET h == (2 ^ 16) % TAPE_LENGTH
        q == (h * h) % TAPE_LENGTH
    IN  (q * q) % TAPE_LENGTH

\* (self.head + a) % 30_000
RightHead(h, a) ==
    IF h >= 0 \/ h + a >= 0 THEN (h + a) % TAPE_LENGTH
    ELSE (USIZE_MOD_TAPE + h + a) % TAPE_LENGTH

\* Expression::Right
VMRight ==
    /\ Stepping("Right")
    /\ vm' = [vm EXCEPT !.head = RightHead(vm.head, ir_instruction.a),
                        !.pc = vm.pc + 1]
    /\ Parsed
    /\ UNCHANGED <<reader, writer>>

\* Expression::Add
VMAdd ==
    /\ Stepping("Add")
    /\ InRange(vm.head)
    /\ vm' = [vm EXCEPT !.tape = Store(vm.tape, vm.head,
                                       wrapping_add(cell, ir_instruction.a)),
                        !.pc = vm.pc + 1]
    /\ Parsed
    /\ UNCHANGED <<reader, writer>>

\* Expression::Sub
VMSub ==
    /\ Stepping("Sub")
    /\ InRange(vm.head)
    /\ vm' = [vm EXCEPT !.tape = Store(vm.tape, vm.head,
                                       wrapping_sub(cell, ir_instruction.a)),
                        !.pc = vm.pc + 1]
    /\ Parsed
    /\ UNCHANGED <<reader, writer>>

\* a loop of one iteration whatever the payload
AfterIteration_Once(v) == [v EXCEPT !.i = 0, !.pc = v.pc + 1]

\* the instruction after the last iteration of Input(times), Output(times)
AfterIteration(v) ==
    IF v.i + 1 >= ir_instruction.a
    THEN [v EXCEPT !.i = 0, !.pc = v.pc + 1]
    ELSE [v EXCEPT !.i = v.i + 1]

\* read_exact takes the next byte of the stream; the environment decides
\* the bytes of the stream as they are asked for
ReadByte(b) ==
    \/ /\ reader.pos < Len(reader.stream)
       /\ b = reader.stream[reader.pos + 1]
       /\ reader' = [reader EXCEPT !.pos = reader.pos + 1]
    \/ /\ reader.pos = Len(reader.stream)
       /\ ~reader.closed
       /\ Len(reader.stream) < MaxInput
       /\ reader' = [reader EXCEPT !.stream = Append(reader.stream, b),
                                   !.pos = reader.pos + 1]

\* read_exact finds the stream exhausted
ReadEof ==
    /\ reader.pos = Len(reader.stream)
    /\ reader' = [reader EXCEPT !.closed = TRUE]

\* an iteration of Input that reads without flushing
VMInput_NoFlush ==
    /\ Stepping("Input")
    /\ writer' = writer
    /\ \E b \in InputBytes :
           /\ ReadByte(b)
           /\ vm' = IF InRange(vm.head)
                    THEN AfterIteration([vm EXCEPT !.tape =
                                             Store(vm.tape, vm.head, b)])
                    ELSE Panic("index")
    /\ Parsed

\* one iteration of Expression::Input: flush, read_exact, assignment
VMInput ==
    /\ Stepping("Input")
    /\ writer' = Append(writer, Flush)
    /\ \E b \in InputBytes :
           /\ ReadByte(b)
           /\ vm' = IF InRange(vm.head)
                    THEN AfterIteration([vm EXCEPT !.tape =
                                             Store(vm.tape, vm.head, b)])
                    ELSE Panic("index")
    /\ Parsed

\* an exhausted reader that leaves the zero of the buffer in the cell
VMInputEof_ZeroFill ==
    /\ Stepping("Input")
    /\ writer' = Append(writer, Flush)
    /\ ReadEof
    /\ vm' = AfterIteration([vm EXCEPT !.tape = Store(vm.tape, vm.head, 0)])
    /\ Parsed

\* one iteration of Expression::Input: read_exact returns UnexpectedEof and
\* unwrap panics
VMInputEof ==
    /\ Stepping("Input")
    /\ writer' = Append(writer, Flush)
    /\ ReadEof
    /\ vm' = Panic("eof")
    /\ Parsed

\* one iteration of Expression::Output
VMOutput ==
    /\ Stepping("Output")
    /\ InRange(vm.head)
    /\ writer' = Append(writer, Write(cell))
    /\ vm' = AfterIteration(vm)
    /\ Parsed
    /\ UNCHANGED reader

\* an Open that jumps to its payload and is then incremented past the Close
VMOpen_PastClose ==
    /\ Stepping("Open")
    /\ InRange(vm.head)
    /\ vm' = [vm EXCEPT !.pc = IF cell = 0
                               THEN ir_instruction.a + 1
                               ELSE vm.pc + 1]
    /\ Parsed
    /\ UNCHANGED <<reader, writer>>

\* Expression::Open: jump_to(close - 1), then increase_pc
VMOpen ==
    /\ Stepping("Open")
    /\ InRange(vm.head)
    /\ vm' = [vm EXCEPT !.pc = IF cell = 0
                               THEN (ir_instruction.a - 1) + 1
                               ELSE vm.pc + 1]
    /\ Parsed
    /\ UNCHANGED <<reader, writer>>

\* a Close that never jumps back
VMClose_NoJump ==
    /\ Stepping("Close")
    /\ InRange(vm.head)
    /\ vm' = [vm EXCEPT !.pc = vm.pc + 1]
    /\ Parsed
    /\ UNCHANGED <<reader, writer>>

\* a Close that jumps back to one before its payload, landing on the Open
VMClose_ToOpen ==
    /\ Stepping("Close")
    /\ InRange(vm.head)
    /\ cell # 0 => vm.jumps < MaxJumps
    /\ vm' = IF cell # 0
             THEN [vm EXCEPT !.pc = (ir_instruction.a - 1) + 1,
                             !.jumps = vm.jumps + 1]
             ELSE [vm EXCEPT !.pc = vm.pc + 1]
    /\ Parsed
    /\ UNCHANGED <<reader, writer>>

\* Expression::Close: jump_to(open), then increase_pc
VMClose ==
    /\ Stepping("Close")
    /\ InRange(vm.head)
    /\ cell # 0 => vm.jumps < MaxJumps
    /\ vm' = IF cell # 0
             THEN [vm EXCEPT !.pc = ir_instruction.a + 1,
                             !.jumps = vm.jumps + 1]
             ELSE [vm EXCEPT !.pc = vm.pc + 1]
    /\ Parsed
    /\ UNCHANGED <<reader, writer>>

\* Nop: nothing
VMNop ==
    /\ Stepping("NOP")
    /\ vm' = [vm EXCEPT !.pc = vm.pc + 1]
    /\ Parsed
    /\ UNCHANGED <<reader, writer>>

\* Zero: tape[head] <- 0
VMZero ==
    /\ Stepping("Zero")
    /\ InRange(vm.head)
    /\ vm' = [vm EXCEPT !.tape = Store(vm.tape, vm.head, 0),
                        !.pc = vm.pc + 1]
    /\ Parsed
    /\ UNCHANGED <<reader, writer>>

\* self.tape[self.head] with the head outside the tape
VMIndexPanic ==
    /\ vm.state = "running"
    /\ ~done
    /\ ir_instruction.k \in {"Add", "Sub", "Output", "Open", "Close", "Zero"}
    /\ ~InRange(vm.head)
    /\ vm' = Panic("index")
    /\ Parsed
    /\ UNCHANGED <<reader, writer>>

\* one iteration of Expression::Input: writer.flush() returns an error and
\* unwrap panics
VMFlushFail ==
    /\ Stepping("Input")
    /\ vm' = Panic("io")
    /\ Parsed
    /\ UNCHANGED <<reader, writer>>

\* one iteration of Expression::Input: read_exact returns an error other
\* than the end of the stream and unwrap panics
VMInputFail ==
    /\ Stepping("Input")
    /\ ~reader.closed
    /\ writer' = Append(writer, Flush)
    /\ vm' = Panic("io")
    /\ Parsed
    /\ UNCHANGED reader

\* one iteration of Expression::Output: writer.write returns an error and
\* unwrap panics
VMOutputFail ==
    /\ Stepping("Output")
    /\ InRange(vm.head)
    /\ vm' = Panic("io")
    /\ Parsed
    /\ UNCHANGED <<reader, writer>>

\* what the caller of run gets: run returns (), or a panic unwinds into it
RunOutcome(v) ==
    CASE v.state = "halted" -> "returned"
      [] v.state = "panicked" -> "panic"
      [] OTHER -> "none"

NextVM ==
    \/ VMDone
    \/ VMLeft
    \/ VMLeftUnderflow
    \/ VMRight
    \/ VMAdd
    \/ VMSub
    \/ VMInput
    \/ VMInputEof
    \/ VMOutput
    \/ VMOpen
    \/ VMClose
    \/ VMNop
    \/ VMZero
    \/ VMIndexPanic

-----------------------------------------------------------------------------
(* The VM on its own.  VM::new is public and takes any IR: the IRs below   *)
(* are those of Parser::parse for short sources with comments between the  *)
(* runs, and the loop `[-]` as a parser without the peephole leaves it.    *)

CharOf(kind) ==
    CASE kind = "Left" -> "<"
      [] kind = "Right" -> ">"
      [] kind = "Add" -> "+"
      [] kind = "Sub" -> "-"
      [] kind = "Input" -> ","
      [] kind = "Output" -> "."

\* the characters one instruction of the IR is parsed from
Blocks(i) ==
    CASE i.k \in CountedKinds -> <<[ch |-> CharOf(i.k), n |-> i.a]>>
      [] i.k = "Open" -> <<Unit("[")>>
      [] i.k = "Close" -> <<Unit("]")>>
      [] i.k = "Zero" -> <<Unit("["), Unit("-"), Unit("]")>>
      [] i.k = "NOP" -> <<Unit("+"), Unit("-")>>

\* a source the IR p is parsed from: a comment ends every run
RECURSIVE SourceOf(_)
SourceOf(p) ==
    IF p = <<>> THEN <<>>
    ELSE IF Len(p) = 1 THEN Blocks(p[1])
    ELSE Blocks(p[1]) \o <<Unit("c")>> \o SourceOf(Tail(p))

SourceBytes(s) == BlockStart(s, Len(s) + 1)

\* the iterator once the source is exhausted
EndIt(s) == [blk |-> Len(s) + 1, k |-> 0, off |-> SourceBytes(s)]

\* the last token the fuser returned
LastToken(p) ==
    LET l == p[Len(p)]
        n == SourceBytes(SourceOf(p))
    IN  CASE l.k \in CountedKinds ->
                [instruction |-> l, beginning |-> n - l.a, end |-> n - 1]
          [] l.k = "NOP" ->
                [instruction |-> NOP, beginning |-> n - 2, end |-> n - 1]
          [] OTHER ->
                [instruction |-> Instr("Close", 1), beginning |-> n - 1,
                 end |-> n - 1]

\* the warnings of the cancelling runs among the first j instructions
RECURSIVE WarningsOf(_, _)
WarningsOf(p, j) ==
    IF j = 0 THEN <<>>
    ELSE IF p[j].k # "NOP" THEN WarningsOf(p, j - 1)
    ELSE LET b == SourceBytes(SourceOf(SubSeq(p, 1, j))) - 2
         IN  Append(WarningsOf(p, j - 1),
                    Warning(b, b + 1, Slice(SourceOf(p), b, b + 1)))

\* the loop with this body whose Open is instruction number at
Loop(at, body) ==
    <<Instr("Open", at + Len(body) + 1)>> \o body \o <<Instr("Close", at)>>

\* the head is left at 0, 1 (over a cell of its own or next to a cell that
\* is not zero) or 29,999
HeadPrefixes ==
    {<<>>, <<Instr("Right", 1)>>, <<Instr("Left", 1)>>,
     <<Instr("Add", 1), Instr("Right", 1)>>}

\* the cell is left at 0, 1, 2 or 255
CellPrefixes ==
    {<<>>, <<Instr("Add", 1)>>, <<Instr("Add", 2)>>, <<Instr("Sub", 1)>>}

\* the payloads of short runs and of runs around a multiple of a period
Payloads ==
    {1, 2} \cup {w * P + d : w \in 1..MaxWraps,
                             P \in {CELL_MODULUS, TAPE_LENGTH},
                             d \in {-1, 0, 1}}

Bodies ==
    {<<>>, <<Instr("Sub", 1)>>, <<Instr("Sub", 2)>>, <<Instr("Right", 1)>>,
     <<Instr("Output", 1)>>, <<Zero>>}

Probes(at) ==
    {<<Instr(k, a)>> : k \in {"Left", "Right", "Add", "Sub"}, a \in Payloads}
        \cup {<<Instr(k, n)>> : k \in {"Input", "Output"}, n \in {1, 2}}
        \cup {<<NOP>>, <<Zero>>}
        \cup {Loop(at, body) : body \in Bodies}

Posts == {<<>>, <<Instr("Output", 1)>>}

\* the loop `[-]` and its meta-instruction on every value of the cell
PeepholePrograms ==
    {<<Instr("Add", v)>> \o x :
        v \in 1..(CELL_MODULUS - 1),
        x \in {Loop(1, <<Instr("Sub", 1)>>), <<Zero>>}}

\* a probe behind two prefixes, and possibly an output behind it
ProbePrograms(h, c) ==
    {h \o c \o x \o y : x \in Probes(Len(h) + Len(c)), y \in Posts}

VMPrograms ==
    UNION {ProbePrograms(h, c) : h \in HeadPrefixes, c \in CellPrefixes}
        \cup PeepholePrograms

\* VM::new(parser.ir()) after the parse of a source of the program
InitVM ==
    /\ ir \in VMPrograms
    /\ src = SourceOf(ir)
    /\ it = EndIt(src)
    /\ pc = "done"
    /\ tok = LastToken(ir)
    /\ brackets = <<>>
    /\ warnings = WarningsOf(ir, Len(ir))
    /\ result = Ok
    /\ vm = [NoVM EXCEPT !.state = "running"]
    /\ reader = NewReader
    /\ writer = NewWriter
    /\ base = NoBase
    /\ first = NoOutcome

SpecVM == InitVM /\ [][NextVM]_vars

\* the loop of VM::run never waits: a VM that can step does
FairSpecVM == SpecVM /\ WF_vars(NextVM)

\* the VM on streams that may fail
NextIO ==
    \/ NextVM
    \/ VMFlushFail
    \/ VMInputFail
    \/ VMOutputFail

SpecIO == InitVM /\ [][NextIO]_vars

-----------------------------------------------------------------------------
(* The baseline interpreter (instructions.rs): one instruction for every   *)
(* instruction character, run on the source and the input of the VM.       *)

\* Instructions::from_str: the bracket stack, kept as its depth
RECURSIVE FromStrScan(_, _, _)
FromStrScan(s, b, depth) ==
    IF b > Len(s) THEN (IF depth > 0 THEN "MismatchedOpen" ELSE "Ok")
    ELSE IF s[b].ch = "[" THEN FromStrScan(s, b + 1, depth + s[b].n)
    ELSE IF s[b].ch = "]"
         THEN IF depth < s[b].n THEN "MismatchedClose"
              ELSE FromStrScan(s, b + 1, depth - s[b].n)
    ELSE FromStrScan(s, b + 1, depth)

from_str(s) == FromStrScan(s, 1, 0)

\* the first block from b on that from_str keeps, or one past the source
RECURSIVE NextInstr(_)
NextInstr(b) ==
    IF b > Len(src) \/ src[b].ch \in InstructionChars THEN b
    ELSE NextInstr(b + 1)

\* the last block up to b that from_str keeps, or 0
RECURSIVE PrevInstr(_)
PrevInstr(b) ==
    IF b < 1 \/ src[b].ch \in InstructionChars THEN b
    ELSE PrevInstr(b - 1)

\* instructions_raw[pc]
BaseChar == src[base.blk].ch

\* the loop of Instructions::execute is at this instruction
BaseAt(ch) ==
    base.state = "running" /\ base.blk <= Len(src) /\ BaseChar = ch

\* pc += 1
BaseAdvance(v) ==
    IF v.k + 1 < src[v.blk].n
    THEN [v EXCEPT !.k = v.k + 1]
    ELSE [v EXCEPT !.blk = NextInstr(v.blk + 1), !.k = 0]

BaseFrame ==
    UNCHANGED <<src, it, pc, tok, ir, brackets, warnings, result, vm, writer,
                first>>

VMFinished == vm.state \in {"halted", "panicked"}
BaseFinished == base.state \in {"halted", "panicked"}

\* Instructions::from_str(source), then the entry of execute
BaseNew ==
    /\ pc = "done"
    /\ VMFinished
    /\ base.state = "idle"
    /\ from_str(src) = "Ok"
    /\ base' = [NoBase EXCEPT !.blk = NextInstr(1), !.state = "running"]
    /\ BaseFrame
    /\ UNCHANGED reader

\* while pc < len
BaseDone ==
    /\ base.state = "running"
    /\ base.blk > Len(src)
    /\ base' = [base EXCEPT !.state = "halted"]
    /\ BaseFrame
    /\ UNCHANGED reader

\* Instruction::Left
BaseLeft ==
    /\ BaseAt("<")
    /\ base' = BaseAdvance([base EXCEPT !.head = IF base.head = 0
                                                 THEN TAPE_LENGTH - 1
                                                 ELSE base.head - 1])
    /\ BaseFrame
    /\ UNCHANGED reader

\* Instruction::Right
BaseRight ==
    /\ BaseAt(">")
    /\ base' = BaseAdvance([base EXCEPT !.head = IF base.head = TAPE_LENGTH - 1
                                                 THEN 0
                                                 ELSE base.head + 1])
    /\ BaseFrame
    /\ UNCHANGED reader

\* Instruction::Less
BaseLess ==
    /\ BaseAt("-")
    /\ base' = BaseAdvance([base EXCEPT !.tape =
           Store(base.tape, base.head,
                 wrapping_sub(Cell(base.tape, base.head), 1))])
    /\ BaseFrame
    /\ UNCHANGED reader

\* Instruction::More
BaseMore ==
    /\ BaseAt("+")
    /\ base' = BaseAdvance([base EXCEPT !.tape =
           Store(base.tape, base.head,
                 wrapping_add(Cell(base.tape, base.head), 1))])
    /\ BaseFrame
    /\ UNCHANGED reader

\* read_exact on the input the VM was given: the bytes it read, then what
\* the environment sends next
BaseReadByte(b) ==
    \/ /\ base.pos < Len(reader.stream)
       /\ b = reader.stream[base.pos + 1]
       /\ UNCHANGED reader
    \/ /\ base.pos = Len(reader.stream)
       /\ ~reader.closed
       /\ Len(reader.stream) < MaxInput
       /\ reader' = [reader EXCEPT !.stream = Append(reader.stream, b)]

\* Instruction::Input
BaseInput ==
    /\ BaseAt(",")
    /\ \E b \in InputBytes :
           /\ BaseReadByte(b)
           /\ base' = BaseAdvance([base EXCEPT
                          !.tape = Store(base.tape, base.head, b),
                          !.pos = base.pos + 1])
    /\ BaseFrame

\* Instruction::Input: read_exact returns UnexpectedEof and unwrap panics
BaseInputEof ==
    /\ BaseAt(",")
    /\ base.pos = Len(reader.stream)
    /\ reader' = [reader EXCEPT !.closed = TRUE]
    /\ base' = [base EXCEPT !.state = "panicked"]
    /\ BaseFrame

\* Instruction::Output
BaseOutput ==
    /\ BaseAt(".")
    /\ base' = BaseAdvance([base EXCEPT !.out =
                                Append(base.out, Cell(base.tape, base.head))])
    /\ BaseFrame
    /\ UNCHANGED reader

\* a forward scan that stops on the first `]`
RECURSIVE ScanForward_FirstClose(_, _)
ScanForward_FirstClose(b, depth) ==
    IF src[b].ch = "]" THEN b
    ELSE ScanForward_FirstClose(NextInstr(b + 1), depth)

\* the forward scan of Instruction::Open from block b
RECURSIVE ScanForward(_, _)
ScanForward(b, depth) ==
    IF src[b].ch = "]" /\ depth = 0 THEN b
    ELSE ScanForward(NextInstr(b + 1),
                     IF src[b].ch = "[" THEN depth + 1
                     ELSE IF src[b].ch = "]" THEN depth - 1
                     ELSE depth)

\* the backward scan of Instruction::Close from block b
RECURSIVE ScanBackward(_, _)
ScanBackward(b, depth) ==
    IF src[b].ch = "[" /\ depth = 0 THEN b
    ELSE ScanBackward(PrevInstr(b - 1),
                      IF src[b].ch = "[" THEN depth + 1
                      ELSE IF src[b].ch = "]" THEN depth - 1
                      ELSE depth)

\* an Open that enters the loop whatever the cell
BaseOpen_Enter ==
    /\ BaseAt("[")
    /\ base' = BaseAdvance(base)
    /\ BaseFrame
    /\ UNCHANGED reader

\* Instruction::Open: on a zero cell the scan stops on the matching `]`, and
\* pc -= 1 followed by pc += 1 leaves the pc there
BaseOpen ==
    /\ BaseAt("[")
    /\ base' = IF Cell(base.tape, base.head) = 0
               THEN [base EXCEPT
                       !.blk = ScanForward(NextInstr(base.blk + 1), 0),
                       !.k = 0]
               ELSE BaseAdvance(base)
    /\ BaseFrame
    /\ UNCHANGED reader

\* Instruction::Close: on a cell that is not zero the scan stops on the
\* matching `[`, and pc += 1 leaves the pc behind it
BaseClose ==
    /\ BaseAt("]")
    /\ Cell(base.tape, base.head) # 0 => base.jumps < MaxJumps
    /\ base' = IF Cell(base.tape, base.head) # 0
               THEN BaseAdvance([base EXCEPT
                       !.blk = ScanBackward(PrevInstr(base.blk - 1), 0),
                       !.k = 0,
                       !.jumps = base.jumps + 1])
               ELSE BaseAdvance(base)
    /\ BaseFrame
    /\ UNCHANGED reader

NextBase ==
    \/ BaseDone
    \/ BaseLeft
    \/ BaseRight
    \/ BaseLess
    \/ BaseMore
    \/ BaseInput
    \/ BaseInputEof
    \/ BaseOutput
    \/ BaseOpen
    \/ BaseClose

\* Instructions::from_str(source).unwrap().execute(..), as the tests and the
\* benchmarks call it: the baseline for itself
BaseStart ==
    /\ pc = "scan"
    /\ base.state = "idle"
    /\ from_str(src) = "Ok"
    /\ base' = [NoBase EXCEPT !.blk = NextInstr(1), !.state = "running"]
    /\ BaseFrame
    /\ UNCHANGED reader

\* the balanced sources over the brackets, `+` and `-`, loops of comments
\* in front of a program, and loops nested three deep
BaseSources ==
    LET U(s) == [j \in 1..Len(s) |-> Unit(s[j])]
        bodies == StringsOver({",", ".", "+", "c"}, 2)
                      \cup {U(<<"[", ",", "]">>), U(<<"[", ".", "]", ",">>),
                            U(<<"[", "[", "-", "]", ".", "]">>)}
        posts  == {U(<<>>), U(<<".">>), U(<<",", ".">>), U(<<">", "+", ".">>),
                   U(<<"<", "-", ".">>), U(<<"+", "[", "-", "]">>)}
        deep   == {U(<<"[", "[", "[", "]", "]", "]">>),
                   U(<<"+", "[", "[", "[", "-", "]", "]", "]">>),
                   U(<<"+", "+", "[", "[", "-", "]", "]">>),
                   U(<<"+", "[", "-", "[", "[", "]", "]", "]">>),
                   U(<<"c", "[", ".", "]", "c", ".">>)}
        loops  == {U(<<"[">>) \o b \o U(<<"]">>) \o q :
                       b \in bodies, q \in posts}
    IN  {s \in StringsOver(BracketAlphabet, MaxNest) \cup loops \cup deep :
            from_str(s) = "Ok"}

InitBase ==
    /\ src \in BaseSources
    /\ it = ItStart
    /\ pc = "scan"
    /\ tok = NoToken
    /\ ir = <<>>
    /\ brackets = <<>>
    /\ warnings = <<>>
    /\ result = Pending
    /\ vm = NoVM
    /\ reader = NewReader
    /\ writer = NewWriter
    /\ base = NoBase
    /\ first = NoOutcome

NextExecute ==
    \/ BaseStart
    \/ NextBase

SpecBase == InitBase /\ [][NextExecute]_vars

-----------------------------------------------------------------------------
(* The binary (bin/brainfuck.rs): a parse, then the VM on its IR.  The     *)
(* baseline interpreter is run on the same source and input, and a source  *)
(* with comments is run a second time with its comments taken out.         *)

IsWrite(e) == e.op = "write"

\* the bytes written to the writer
WrittenBytes(w) ==
    LET s == SelectSeq(w, IsWrite)
    IN  [j \in 1..Len(s) |-> s[j].b]

IsInstructionBlock(b) == b.ch \in InstructionChars

HasComments(s) == \E b \in 1..Len(s) : ~IsInstructionBlock(s[b])

\* the source without the characters that are not instructions
Strip(s) == SelectSeq(s, IsInstructionBlock)

\* the run is over: the parse failed, or the VM and the baseline stopped
RunOver ==
    /\ pc = "done"
    /\ result.tag = "Err" \/ BaseFinished

\* the binary is started again on the source without its comments and on
\* the same input
Rerun ==
    /\ first = NoOutcome
    /\ HasComments(src)
    /\ RunOver
    /\ first' = [run |-> IF result.tag = "Err" THEN "rejected" ELSE vm.state,
                 src |-> src,
                 out |-> WrittenBytes(writer),
                 pos |-> reader.pos,
                 build |-> vm.build]
    /\ src' = Strip(src)
    /\ it' = ItStart
    /\ pc' = "scan"
    /\ tok' = NoToken
    /\ ir' = <<>>
    /\ brackets' = <<>>
    /\ warnings' = <<>>
    /\ result' = Pending
    /\ vm' = NoVM
    /\ reader' = [reader EXCEPT !.pos = 0]
    /\ writer' = NewWriter
    /\ base' = NoBase

\* loops behind a cell that is not zero, or that was read
LoopBodies ==
    StringsOver({".", ",", "+", "-", ">"}, 2)
        \cup {<<Unit("["), Unit("-"), Unit("]")>>,
              <<Unit("["), Unit(">"), Unit("]")>>}

LoopSources ==
    {pre \o <<Unit("[")>> \o body \o <<Unit("]")>> \o post :
        pre \in {<<Unit("+")>>, <<Unit("-")>>, <<Unit(",")>>},
        body \in LoopBodies,
        post \in {<<>>, <<Unit(".")>>}}

\* a run of a multiple of its period, and of one more, with the cell written
\* behind it; the run of `<` also with a comment before its last character
WrapSources ==
    {<<[ch |-> ch, n |-> w * Period(ch) + d], Unit(".")>> :
        ch \in {"+", "-"}, w \in 1..MaxWraps, d \in {0, 1}}
        \cup {<<[ch |-> ch, n |-> w * Period(ch) + 1], Unit(".")>> :
                ch \in {"<", ">"}, w \in 1..MaxWraps}
        \cup {<<[ch |-> "<", n |-> w * Period("<")], Unit("c"), Unit("<"),
                Unit(".")>> : w \in 1..MaxWraps}

PipelineSources ==
    StringsOver(Alphabet, MaxLen - 1) \cup LoopSources \cup WrapSources

InitRun ==
    /\ src \in PipelineSources
    /\ it = ItStart
    /\ pc = "scan"
    /\ tok = NoToken
    /\ ir = <<>>
    /\ brackets = <<>>
    /\ warnings = <<>>
    /\ result = Pending
    /\ vm = NoVM
    /\ reader = NewReader
    /\ writer = NewWriter
    /\ base = NoBase
    /\ first = NoOutcome

NextRun ==
    \/ Next
    \/ VMNew
    \/ NextVM
    \/ BaseNew
    \/ NextBase
    \/ Rerun

SpecRun == InitRun /\ [][NextRun]_vars

\* how a run of the parser and the VM ended
Outcome ==
    CASE result.tag = "Err" -> "rejected"
      [] vm.state = "panicked" -> vm.cause
      [] OTHER -> vm.state

\* the parser is over, and the VM if there was one
ParseAndRunOver ==
    /\ pc = "done"
    /\ result.tag = "Err" \/ VMFinished

\* the binary is started a second time on the same source and the same
\* input; the VM of the first run is dropped
RunAgain ==
    /\ first = NoOutcome
    /\ ParseAndRunOver
    /\ first' = [run |-> Outcome,
                 src |-> src,
                 out |-> WrittenBytes(writer),
                 pos |-> reader.pos,
                 build |-> vm.build]
    /\ it' = ItStart
    /\ pc' = "scan"
    /\ tok' = NoToken
    /\ ir' = <<>>
    /\ brackets' = <<>>
    /\ warnings' = <<>>
    /\ result' = Pending
    /\ vm' = [vm EXCEPT !.state = "idle"]
    /\ reader' = [reader EXCEPT !.pos = 0]
    /\ writer' = NewWriter
    /\ UNCHANGED <<src, base>>

NextTwice ==
    \/ Next
    \/ VMNew
    \/ NextVM
    \/ RunAgain

SpecTwice == InitRun /\ [][NextTwice]_vars

-----------------------------------------------------------------------------
(* The default interpreter of main.rs: Lexemes (lexemes.rs).  In this       *)
(* specification ir is lexemes_raw, brackets holds the JumpAndPosition     *)
(* entries, vm holds pc, head and tape of Lexemes::execute, and the naive  *)
(* interpreter runs behind it on the same input.                           *)

\* TryFrom<char> for Lexeme
LexemeOf(c) ==
    CASE c = "<" -> Instr("Shift", -1)
      [] c = ">" -> Instr("Shift", 1)
      [] c = "-" -> Instr("Manipulate", -1)
      [] c = "+" -> Instr("Manipulate", 1)
      [] c = "," -> Instr("Input", 1)
      [] c = "." -> Instr("Output", 1)
      [] c = "[" -> Instr("Open", 1)
      [] c = "]" -> Instr("Close", 1)
      [] OTHER -> None

\* a collapse that keeps the argument of the lexeme before
collapse_KeepLast(mine, theirs) ==
    IF mine.k = theirs.k /\ mine.k \in {"Shift", "Manipulate", "Input", "Output"}
    THEN Instr(mine.k, theirs.a)
    ELSE None

\* Lexeme::collapse
collapse(mine, theirs) ==
    IF mine.k = theirs.k /\ mine.k \in {"Shift", "Manipulate", "Input", "Output"}
    THEN Instr(mine.k, mine.a + theirs.a)
    ELSE None

\* Lexemes::from_str: the body of the loop over the characters
LexChar ==
    /\ pc = "scan"
    /\ HasNext
    /\ LET lexeme == LexemeOf(PeekChar)
           collapsed == IF ir = <<>> \/ lexeme = None THEN None
                        ELSE collapse(lexeme, ir[Len(ir)])
       IN  CASE lexeme = None ->
                    UNCHANGED <<ir, brackets, result, pc>>
             [] lexeme # None /\ collapsed # None ->
                    /\ ir' = IF collapsed.a = 0
                             THEN Pop(ir)
                             ELSE Append(Pop(ir), collapsed)
                    /\ UNCHANGED <<brackets, result, pc>>
             [] lexeme # None /\ collapsed = None /\ lexeme.k = "Open" ->
                    /\ brackets' = Append(brackets,
                           [jump_position |-> Len(ir),
                            source_position |-> [blk |-> it.blk, k |-> it.k]])
                    /\ ir' = Append(ir, lexeme)
                    /\ UNCHANGED <<result, pc>>
             [] lexeme # None /\ collapsed = None /\ lexeme.k = "Close" ->
                    IF ir = <<>> \/ brackets = <<>>
                    THEN /\ result' = MismatchedBracket(
                                          [blk |-> it.blk, k |-> it.k], "]")
                         /\ pc' = "done"
                         /\ UNCHANGED <<ir, brackets>>
                    ELSE LET open == Top(brackets).jump_position
                         IN  /\ ir' = Append([ir EXCEPT ![open + 1] =
                                                  Instr("Open", Len(ir))],
                                             Instr("Close", open))
                             /\ brackets' = Pop(brackets)
                             /\ UNCHANGED <<result, pc>>
             [] OTHER ->
                    /\ ir' = Append(ir, lexeme)
                    /\ UNCHANGED <<brackets, result, pc>>
    /\ it' = Advance
    /\ UNCHANGED <<src, tok, warnings>>
    /\ UNCHANGED machine

\* Lexemes::from_str: the characters are exhausted
LexFinish ==
    /\ pc = "scan"
    /\ ~HasNext
    /\ IF brackets # <<>>
       THEN /\ result' = MismatchedBracket(Top(brackets).source_position, "[")
            /\ brackets' = Pop(brackets)
       ELSE /\ result' = Ok
            /\ UNCHANGED brackets
    /\ pc' = "done"
    /\ UNCHANGED <<src, it, tok, ir, warnings>>
    /\ UNCHANGED machine

\* the entry of Lexemes::execute
LexNew ==
    /\ pc = "done"
    /\ result = Ok
    /\ vm.state = "idle"
    /\ vm' = [NoVM EXCEPT !.state = "running"]
    /\ Parsed
    /\ UNCHANGED <<reader, writer>>

\* while pc < len
LexDone ==
    /\ vm.state = "running"
    /\ done
    /\ vm' = [vm EXCEPT !.state = "halted"]
    /\ Parsed
    /\ UNCHANGED <<reader, writer>>

\* Lexeme::Shift, Lexeme::Manipulate, Lexeme::Open and Lexeme::Close,
\* followed by pc += 1
LexMove ==
    /\ vm.state = "running"
    /\ ~done
    /\ LET a == ir_instruction.a
           rem == IF a >= 0 THEN a % CELL_MODULUS ELSE -((-a) % CELL_MODULUS)
       IN  CASE ir_instruction.k = "Shift" ->
                    vm' = [vm EXCEPT !.head = (vm.head + a) % TAPE_LENGTH,
                                     !.pc = vm.pc + 1]
             [] ir_instruction.k = "Manipulate" ->
                    vm' = [vm EXCEPT
                             !.tape = Store(vm.tape, vm.head,
                                  wrapping_add(cell, rem % CELL_MODULUS)),
                             !.pc = vm.pc + 1]
             [] ir_instruction.k = "Open" ->
                    vm' = [vm EXCEPT !.pc = IF cell = 0 THEN (a - 1) + 1
                                            ELSE vm.pc + 1]
             [] ir_instruction.k = "Close" ->
                    /\ cell # 0 => vm.jumps < MaxJumps
                    /\ vm' = IF cell # 0
                             THEN [vm EXCEPT !.pc = a + 1,
                                             !.jumps = vm.jumps + 1]
                             ELSE [vm EXCEPT !.pc = vm.pc + 1]
             [] OTHER -> FALSE
    /\ Parsed
    /\ UNCHANGED <<reader, writer>>

\* one iteration of Lexeme::Input
LexInput ==
    /\ Stepping("Input")
    /\ \E b \in InputBytes :
           /\ ReadByte(b)
           /\ vm' = AfterIteration([vm EXCEPT !.tape =
                                        Store(vm.tape, vm.head, b)])
    /\ Parsed
    /\ UNCHANGED writer

\* one iteration of Lexeme::Input: read_exact returns UnexpectedEof and
\* unwrap panics
LexInputEof ==
    /\ Stepping("Input")
    /\ ReadEof
    /\ vm' = Panic("eof")
    /\ Parsed
    /\ UNCHANGED writer

\* one iteration of Lexeme::Output
LexOutput ==
    /\ Stepping("Output")
    /\ writer' = Append(writer, Write(cell))
    /\ vm' = AfterIteration(vm)
    /\ Parsed
    /\ UNCHANGED reader

\* the sources of the pipeline, the balanced and unbalanced sources over
\* the brackets, `+` and `-`, and loops around runs that cancel
InitLex ==
    /\ LET U(s) == [j \in 1..Len(s) |-> Unit(s[j])]
           drops == {U(<<"-", "[", "+", "-", "+", "]", ".">>),
                     U(<<",", "[", ">", "<", "-", "]", "+", "-", ".">>),
                     U(<<"+", "[", "-", "+", "-", "[", "+", "-", "]", "]", ".">>),
                     U(<<"+", "-", "[", ",", "]", ",", ",", ".">>),
                     U(<<"c", "+", "-", "]", "+">>),
                     U(<<"+", ">", "<", "+", "[", "-", ".", "]">>)}
       IN  src \in PipelineSources
                      \cup StringsOver(BracketAlphabet, MaxNest - 1) \cup drops
    /\ it = ItStart
    /\ pc = "scan"
    /\ tok = NoToken
    /\ ir = <<>>
    /\ brackets = <<>>
    /\ warnings = <<>>
    /\ result = Pending
    /\ vm = NoVM
    /\ reader = NewReader
    /\ writer = NewWriter
    /\ base = NoBase
    /\ first = NoOutcome

NextLex ==
    \/ LexChar
    \/ LexFinish
    \/ LexNew
    \/ LexDone
    \/ LexMove
    \/ LexInput
    \/ LexInputEof
    \/ LexOutput
    \/ BaseNew
    \/ NextBase

SpecLex == InitLex /\ [][NextLex]_vars

-----------------------------------------------------------------------------
(* Instruction::combine on its own: the running instruction of the fuser   *)
(* is any instruction, and so is the one it is combined with.              *)

Operands ==
    {Instr(k, a) : k \in CountedKinds \cup {"Open", "Close"}, a \in 1..MaxCount}
        \cup {NOP, Zero}

InitCombine ==
    /\ src = <<>>
    /\ it = ItStart
    /\ pc = "combine"
    /\ tok \in {[instruction |-> s, beginning |-> 0, end |-> 0] : s \in Operands}
    /\ ir = <<>>
    /\ brackets = <<>>
    /\ warnings = <<>>
    /\ result = Pending
    /\ vm = NoVM
    /\ reader = NewReader
    /\ writer = NewWriter
    /\ base = NoBase
    /\ first = NoOutcome

\* instruction.combine(&other): ir keeps the two operands, tok the result
Combine ==
    /\ pc = "combine"
    /\ \E o \in Operands :
           /\ ir' = <<tok.instruction, o>>
           /\ tok' = [tok EXCEPT !.instruction = combine(tok.instruction, o)]
    /\ pc' = "combined"
    /\ UNCHANGED <<src, it, brackets, warnings, result>>
    /\ UNCHANGED machine

SpecCombine == InitCombine /\ [][Combine]_vars

-----------------------------------------------------------------------------
(* Reading a source independently of the parser *)

\* the character that starts at byte offset off, "" when there is none
CharAt(s, off) ==
    IF \E b \in 1..Len(s) :
           /\ BlockStart(s, b) <= off
           /\ off < BlockStart(s, b) + s[b].n * Width(s[b].ch)
           /\ (off - BlockStart(s, b)) % Width(s[b].ch) = 0
    THEN LET b == CHOOSE b \in 1..Len(s) :
                      /\ BlockStart(s, b) <= off
                      /\ off < BlockStart(s, b) + s[b].n * Width(s[b].ch)
         IN  s[b].ch
    ELSE ""

\* a left-to-right scan of the brackets of s: opens is the sequence of byte
\* offsets of the `[` not closed so far, close the byte offset of the first
\* `]` met with no `[` to close (-1 when there is none); the scan stops there
RECURSIVE BracketScan(_, _, _)
BracketScan(s, b, opens) ==
    IF b > Len(s) THEN [opens |-> opens, close |-> -1]
    ELSE IF s[b].ch = "["
    THEN BracketScan(s, b + 1,
                     opens \o [j \in 1..s[b].n |-> BlockStart(s, b) + j - 1])
    ELSE IF s[b].ch = "]"
    THEN IF s[b].n <= Len(opens)
         THEN BracketScan(s, b + 1, SubSeq(opens, 1, Len(opens) - s[b].n))
         ELSE [opens |-> <<>>, close |-> BlockStart(s, b) + Len(opens)]
    ELSE BracketScan(s, b + 1, opens)

UnmatchedClose(s) == BracketScan(s, 1, <<>>).close
UnmatchedOpens(s) == BracketScan(s, 1, <<>>).opens

\* no prefix of s has more `]` than `[`, and the totals are equal
Balanced(s) == UnmatchedClose(s) = -1 /\ UnmatchedOpens(s) = <<>>

Count(seq, set) == Cardinality({j \in 1..Len(seq) : seq[j] \in set})

\* a run of `+`/`-` or of `<`/`>` whose net effect is zero
NetZero(text) ==
    \/ /\ \A j \in 1..Len(text) : text[j] \in {"+", "-"}
       /\ Count(text, {"+"}) = Count(text, {"-"})
    \/ /\ \A j \in 1..Len(text) : text[j] \in {"<", ">"}
       /\ Count(text, {"<"}) = Count(text, {">"})

Done == pc = "done"
Succeeded == result = Ok

-----------------------------------------------------------------------------
\* C1: after a successful parse every Open at index i carries the index j of
\* a Close with i < j < len(ir) whose payload is i, and every Close at index
\* j carries the index i < j of an Open whose payload is j (indices 0-based).
BracketBijection ==
    Succeeded =>
        \A i \in 0..(Len(ir) - 1) :
            /\ ir[i + 1].k = "Open" =>
                   LET j == ir[i + 1].a
                   IN  /\ i < j
                       /\ j < Len(ir)
                       /\ ir[j + 1].k = "Close"
                       /\ ir[j + 1].a = i
            /\ ir[i + 1].k = "Close" =>
                   LET o == ir[i + 1].a
                   IN  /\ o < i
                       /\ ir[o + 1].k = "Open"
                       /\ ir[o + 1].a = i

\* a successful parse whose IR has a Zero inside a loop
BracketBijectionWitness ==
    /\ Succeeded
    /\ \E i \in 1..Len(ir) :
           /\ ir[i].k = "Open"
           /\ \E z \in (i + 1)..ir[i].a : ir[z].k = "Zero"

\* C2: the parse succeeds exactly when the brackets of the source are
\* balanced.
SuccessIffBalanced == Done => (Succeeded <=> Balanced(src))

\* a successful parse of a source with a comment and a cancelling run
SuccessIffBalancedWitness ==
    /\ Done
    /\ Succeeded
    /\ warnings # <<>>
    /\ \E b \in 1..Len(src) : src[b].ch \in {"c", "u2"}

\* C3: when the source has a `]` with no open bracket to close, the parse
\* fails with the error for `]` at the byte offset of the first such `]`,
\* and no character after it has been consumed.
UnmatchedCloseReported ==
    (Done /\ UnmatchedClose(src) # -1) =>
        /\ result = MismatchedBracket(UnmatchedClose(src), "]")
        /\ it.off = UnmatchedClose(src) + 1

\* the error for `]` at an offset > 0, with a `[` later in the source
UnmatchedCloseReportedWitness ==
    /\ Done
    /\ result.tag = "Err"
    /\ result.bracket = "]"
    /\ result.position > 0
    /\ \E b \in 1..Len(src) :
           src[b].ch = "[" /\ BlockStart(src, b) > result.position

\* C4, as stated: with no unmatched `]` and some `[` left open, the parse
\* fails with the error for `[` at the offset of the bottom-most (first)
\* unmatched `[`.
UnmatchedOpenBottom ==
    (Done /\ UnmatchedClose(src) = -1 /\ UnmatchedOpens(src) # <<>>) =>
        result = MismatchedBracket(UnmatchedOpens(src)[1], "[")

\* C4, amended: with no unmatched `]` and some `[` left open, the parse
\* fails with the error for `[` at the offset of the top-most (last pushed,
\* innermost) unmatched `[`.
UnmatchedOpenTop ==
    (Done /\ UnmatchedClose(src) = -1 /\ UnmatchedOpens(src) # <<>>) =>
        result = MismatchedBracket(
                     UnmatchedOpens(src)[Len(UnmatchedOpens(src))], "[")

\* the error for `[` on a source that leaves two or more `[` open
UnmatchedOpenTopWitness ==
    /\ Done
    /\ result.tag = "Err"
    /\ result.bracket = "["
    /\ Len(UnmatchedOpens(src)) >= 2

\* C5: after a failed parse the IR of the parser holds none of the
\* instructions assembled before the error.
NoPartialIR == result.tag = "Err" => ir = <<>>

\* C6: after a successful parse every counted instruction has payload >= 1.
PayloadAtLeastOne ==
    Succeeded =>
        \A i \in 1..Len(ir) : ir[i].k \in CountedKinds => ir[i].a >= 1

\* a successful parse of a run whose length is a multiple of the wrap period
PayloadAtLeastOneWitness ==
    /\ Succeeded
    /\ \E i \in 1..Len(ir) :
           \/ ir[i].k \in {"Add", "Sub"} /\ ir[i].a % CELL_MODULUS = 0
           \/ ir[i].k \in {"Left", "Right"} /\ ir[i].a % TAPE_LENGTH = 0

\* C7: after a successful parse every Add and Sub payload is < 256 and
\* every Left and Right payload is < 30,000.
PayloadsReduced ==
    Succeeded =>
        \A i \in 1..Len(ir) :
            /\ ir[i].k \in {"Add", "Sub"} => ir[i].a < CELL_MODULUS
            /\ ir[i].k \in {"Left", "Right"} => ir[i].a < TAPE_LENGTH

\* the source text between two byte offsets, read character by character
TextBetween(s, from, to) == [j \in 1..(to - from + 1) |-> CharAt(s, from + j - 1)]

\* the step assembles a grouped token that fused to zero net effect
NopTokenStep == Fused /\ tok.instruction = NOP /\ pc' = "scan"

\* C8: every grouped token that fuses to zero appends exactly one Nop and
\* records exactly one warning; the warning spans the first to the last
\* character of the run and its text is that part of the source, a run of
\* zero net effect; no other step records a warning, so there are as many
\* warnings as Nops.
NopWarnings ==
    /\ [][IF NopTokenStep
          THEN /\ ir' = Append(ir, NOP)
               /\ Len(warnings') = Len(warnings) + 1
               /\ SubSeq(warnings', 1, Len(warnings)) = warnings
               /\ warnings'[Len(warnings')].beginning = tok.beginning
               /\ warnings'[Len(warnings')].end = it.off - 1
          ELSE warnings' = warnings]_vars
    /\ [](/\ Len(warnings) = Count(ir, {NOP})
          /\ \A p \in 1..Len(warnings) :
                 LET w == warnings[p]
                 IN  /\ w.beginning < w.end
                     /\ w.line = TextBetween(src, w.beginning, w.end)
                     /\ NetZero(w.line))

\* a warning for a cancelling run that does not start the source
NopWarningsWitness ==
    /\ Done
    /\ \E p \in 1..Len(warnings) :
           warnings[p].beginning > 0 /\ warnings[p].end > warnings[p].beginning + 1

\* C9: the warnings are in source order, with disjoint byte ranges.
WarningsOrdered ==
    \A p, q \in 1..Len(warnings) :
        p < q => warnings[p].end < warnings[q].beginning

\* two warnings recorded by one parse
WarningsOrderedWitness == Done /\ Len(warnings) >= 2

\* C10: recording a warning never ends the parse, the only failure is a
\* bracket error, and a bracket-balanced source parses successfully with its
\* warnings recorded.
WarningsNeverAbort ==
    /\ [][warnings' # warnings => (pc' = "scan" /\ result' = Pending)]_vars
    /\ [](result.tag = "Err" => result.bracket \in {"[", "]"})
    /\ []((Done /\ Balanced(src)) => (Succeeded /\ Len(ir) >= Len(warnings)))

\* a successful parse with two warnings inside a loop
WarningsNeverAbortWitness ==
    /\ Done
    /\ Succeeded
    /\ Len(warnings) >= 2
    /\ \E i \in 1..Len(ir) : ir[i].k = "Close"

\* the step assembles a `]` that closes an open bracket
CloseTokenStep ==
    Fused /\ tok.instruction.k = "Close" /\ brackets # <<>> /\ pc' = "scan"

\* C11: a Zero is appended exactly when a `]` is assembled over a loop body
\* that is the single instruction Sub(1); the Open and the Sub(1) are then
\* removed and no Close is pushed.  Over any other body (empty, Add(1),
\* Sub(n) with n # 1, several instructions) the `]` keeps the body and pushes
\* a Close, and no other step adds or removes a Zero.
ZeroOnlyForSubOne ==
    [][IF CloseTokenStep
       THEN LET open == brackets[Len(brackets)].jump_index
                body == SubSeq(ir, open + 2, Len(ir))
            IN  IF body = <<Instr("Sub", 1)>>
                THEN ir' = SubSeq(ir, 1, open) \o <<Zero>>
                ELSE /\ Len(ir') = Len(ir) + 1
                     /\ ir'[Len(ir')].k = "Close"
                     /\ SubSeq(ir', open + 2, Len(ir)) = body
                     /\ Count(ir', {Zero}) = Count(ir, {Zero})
       ELSE Count(ir', {Zero}) = Count(ir, {Zero})]_vars

\* a successful parse with a rewritten loop and a loop over Add(1) that was
\* kept
ZeroOnlyForSubOneWitness ==
    /\ Succeeded
    /\ Count(ir, {Zero}) = 1
    /\ \E j \in 2..Len(ir) :
           ir[j].k = "Close" /\ ir[j - 1] = Instr("Add", 1)

-----------------------------------------------------------------------------
(* Claims about the virtual machine *)

\* instructions o, o + 1, o + 2 of the IR are the loop Open, Sub(1), Close
RawLoopAt(o) ==
    /\ o + 3 <= Len(ir)
    /\ ir[o + 1] = Instr("Open", o + 2)
    /\ ir[o + 2] = Instr("Sub", 1)
    /\ ir[o + 3] = Instr("Close", o)

RawLoops == {o \in 0..Len(ir) : RawLoopAt(o)}

\* the step leaves the head, every cell but the one under the head, and the
\* two streams as they are
OnlyCellChanges ==
    /\ vm'.state = "running"
    /\ vm'.head = vm.head
    /\ \A x \in (DOMAIN vm.tape \cup DOMAIN vm'.tape) \ {vm.head} :
           Cell(vm'.tape, x) = Cell(vm.tape, x)
    /\ reader' = reader
    /\ writer' = writer

\* C12: on every value of the cell and every head position the loop Open,
\* Sub(1), Close terminates, and it does what Zero does: each of its steps
\* changes nothing but the cell under the head and the pc, the loop is left
\* only with that cell at 0, and the step of Zero sets that cell to 0 and
\* changes nothing else.
PeepholeEquivalence ==
    /\ [][\A o \in RawLoops :
            (vm.state = "running" /\ vm.pc \in o..(o + 2) /\ vm' # vm) =>
                /\ OnlyCellChanges
                /\ vm'.pc \in o..(o + 3)
                /\ vm'.pc = o + 3 => Cell(vm'.tape, vm.head) = 0]_vars
    /\ [][(Stepping("Zero") /\ InRange(vm.head) /\ vm' # vm) =>
                /\ OnlyCellChanges
                /\ vm'.pc = vm.pc + 1
                /\ Cell(vm'.tape, vm.head) = 0]_vars
    /\ (vm.state = "running" /\ \E o \in RawLoops : vm.pc = o)
           ~> (\E o \in RawLoops : vm.pc = o + 3)

\* the loop was entered with 255 in the cell and has been left
PeepholeEquivalenceWitness ==
    /\ \E o \in RawLoops : vm.pc = o + 3
    /\ vm.jumps = CELL_MODULUS - 2
    /\ cell = 0

\* C15: from every head position Left(a) moves the head to (head - a) mod
\* 30,000 and the VM keeps running.
LeftWraps ==
    [][(Stepping("Left") /\ InRange(vm.head) /\ vm' # vm) =>
            /\ vm'.state = "running"
            /\ vm'.head = (vm.head - ir_instruction.a) % TAPE_LENGTH]_vars

\* C16: from every head position Right(a) moves the head to (head + a) mod
\* 30,000, and the head is inside the tape in every state of the VM.
RightWrapsHeadInRange ==
    /\ [][(Stepping("Right") /\ InRange(vm.head) /\ vm' # vm) =>
            vm'.head = (vm.head + ir_instruction.a) % TAPE_LENGTH]_vars
    /\ [](InRange(vm.head))

\* C17: Add(a) leaves (c + a) mod 256 and Sub(a) leaves (c - a) mod 256 in
\* the cell under the head, whatever the size of a.
CellArithmetic ==
    [][(vm.state = "running" /\ ~done /\ InRange(vm.head) /\ vm' # vm) =>
            /\ ir_instruction.k = "Add" =>
                   /\ vm'.state = "running"
                   /\ Cell(vm'.tape, vm.head) =
                          (cell + ir_instruction.a) % CELL_MODULUS
            /\ ir_instruction.k = "Sub" =>
                   /\ vm'.state = "running"
                   /\ Cell(vm'.tape, vm.head) =
                          (cell - ir_instruction.a) % CELL_MODULUS]_vars

\* a `-` took the cell from 0 to 255 and an Add of more than 256 took it on
CellArithmeticWitness ==
    /\ vm.pc >= 2
    /\ ir[vm.pc - 1] = Instr("Sub", 1)
    /\ ir[vm.pc].k = "Add"
    /\ ir[vm.pc].a > CELL_MODULUS
    /\ cell = (CELL_MODULUS - 1 + ir[vm.pc].a) % CELL_MODULUS

\* C18 as stated: Open(j) on a zero cell leaves pc on the instruction after
\* the matching Close, and falls through on any other cell.
OpenLandsAfterClose ==
    [][(Stepping("Open") /\ InRange(vm.head) /\ vm' # vm) =>
            vm'.pc = IF cell = 0 THEN ir_instruction.a + 1 ELSE vm.pc + 1]_vars

\* C18: Open(j) on a zero cell leaves pc at j, on the matching Close itself,
\* and falls through on any other cell; it changes nothing but the pc.
OpenLandsOnClose ==
    [][(Stepping("Open") /\ InRange(vm.head) /\ vm' # vm) =>
            /\ vm' = [vm EXCEPT !.pc = IF cell = 0
                                       THEN ir_instruction.a
                                       ELSE vm.pc + 1]
            /\ ir[ir_instruction.a + 1] = Instr("Close", vm.pc)
            /\ UNCHANGED <<reader, writer>>]_vars

\* an Open skipped a body that would have written, and the pc is on the Close
OpenLandsOnCloseWitness ==
    /\ vm.state = "running"
    /\ vm.pc >= 2
    /\ vm.pc < Len(ir)
    /\ ir[vm.pc + 1].k = "Close"
    /\ ir[vm.pc].k = "Output"
    /\ ir[vm.pc - 1] = Instr("Open", vm.pc)
    /\ writer = NewWriter
    /\ cell = 0

\* C19: Close(i) on a cell that is not zero leaves pc at i + 1, behind the
\* matching Open, and on a zero cell at the instruction behind the Close;
\* neither changes the tape or the head.
CloseStep ==
    [][(Stepping("Close") /\ InRange(vm.head) /\ vm' # vm) =>
            /\ vm'.pc = IF cell # 0 THEN ir_instruction.a + 1 ELSE vm.pc + 1
            /\ ir[ir_instruction.a + 1] = Instr("Open", vm.pc)
            /\ vm'.tape = vm.tape
            /\ vm'.head = vm.head
            /\ vm'.state = "running"]_vars

\* a Close has jumped back and the pc is on the first instruction of the body
CloseStepWitness ==
    /\ vm.state = "running"
    /\ vm.jumps = 1
    /\ vm.pc >= 1
    /\ vm.pc < Len(ir)
    /\ ir[vm.pc].k = "Open"
    /\ ir[vm.pc + 1] = Instr("Sub", 2)
    /\ cell # 0

-----------------------------------------------------------------------------
(* Claims about the pipeline *)

\* C13: on a bracket-balanced source and any input, the VM on the fused IR
\* writes the bytes and consumes the input that Instructions::execute does.
FusionEquivalence ==
    (VMFinished /\ BaseFinished) =>
        /\ WrittenBytes(writer) = base.out
        /\ reader.pos = base.pos

\* C14: a source and the source without its comments are both accepted or
\* both rejected, and on the same input their runs write the same bytes.
CommentInvariance ==
    (first.run # "none" /\ pc = "done") =>
        /\ (first.run = "rejected") <=> (result.tag = "Err")
        /\ VMFinished => first.out = WrittenBytes(writer)

\* C20: the VM steps when pc < len(ir) and halts when pc >= len(ir), and on
\* the IR of a successful parse 0 <= pc <= len(ir) in every state, the pc
\* that Open jumps to before the increment included.
PcWithinIR ==
    /\ [](vm.state # "idle" =>
            /\ 0 <= vm.pc
            /\ vm.pc <= Len(ir)
            /\ vm.state = "halted" => vm.pc >= Len(ir)
            /\ \A j \in 1..Len(ir) :
                   ir[j].k = "Open" => /\ 0 <= ir[j].a - 1
                                       /\ ir[j].a - 1 < Len(ir))
    /\ [][(vm.state = "running" /\ vm' # vm) =>
            IF vm.pc < Len(ir)
            THEN vm'.state \in {"running", "panicked"}
            ELSE vm' = [vm EXCEPT !.state = "halted"]]_vars

\* the VM halted behind a Close that is the last instruction, after the Close
\* had jumped back
PcWithinIRWitness ==
    /\ vm.state = "halted"
    /\ vm.pc = Len(ir)
    /\ Len(ir) > 0
    /\ ir[Len(ir)].k = "Close"
    /\ vm.jumps >= 1

-----------------------------------------------------------------------------
(* Claims about Instruction::combine and the fuser's tokens *)

\* the instruction comes from a character of a source, or from fusing such
SourceDerived(i) == i.k \in CountedKinds \cup {"Open", "Close", "NOP"}

\* the net of two opposite counts: the kind of the larger, or Nop
Net(kindA, a, kindB, b) ==
    IF a > b THEN Instr(kindA, a - b)
    ELSE IF b > a THEN Instr(kindB, b - a)
    ELSE NOP

\* what the fusion rules give for self and other
Fusion(s, o) ==
    IF s.k \in CountedKinds /\ o.k = s.k THEN Instr(s.k, s.a + o.a)
    ELSE IF s.k = "Left" /\ o.k = "Right" THEN Net("Left", s.a, "Right", o.a)
    ELSE IF s.k = "Right" /\ o.k = "Left" THEN Net("Right", s.a, "Left", o.a)
    ELSE IF s.k = "Add" /\ o.k = "Sub" THEN Net("Add", s.a, "Sub", o.a)
    ELSE IF s.k = "Sub" /\ o.k = "Add" THEN Net("Sub", s.a, "Add", o.a)
    ELSE None

\* C29: combine gives the sum for two runs of one kind, the net move or the
\* net arithmetic (Nop when they cancel) for opposite kinds in either order,
\* and nothing for every other pair of source-derived instructions.
CombineExact ==
    (pc = "combined" /\ SourceDerived(ir[1]) /\ SourceDerived(ir[2])) =>
        tok.instruction = Fusion(ir[1], ir[2])

\* a move to the left and an equal move to the right were combined
CombineExactWitness ==
    /\ pc = "combined"
    /\ ir = <<Instr("Left", 2), Instr("Right", 2)>>
    /\ tok.instruction = NOP

\* C30: a token begins at the offset of its first instruction character and
\* ends at the offset of the last character fused into it; its range holds
\* instruction characters only; the next token begins behind its end; and
\* the characters taken outside a token are not instructions.
TokenRanges ==
    [][/\ (pc = "scan" /\ it' # it /\ pc' = "scan") =>
              PeekChar \notin InstructionChars
       /\ (pc = "scan" /\ it' # it /\ pc' = "fuse") =>
              /\ PeekChar \in InstructionChars
              /\ tok'.beginning = it.off
              /\ tok'.end = it.off
              /\ tok # NoToken => tok.end < tok'.beginning
       /\ (pc = "fuse" /\ it' # it) =>
              /\ PeekChar \in InstructionChars
              /\ it.off = tok.end + 1
              /\ tok'.beginning = tok.beginning
              /\ tok'.end = it.off
       /\ (pc = "fuse" /\ pc' # "fuse") =>
              /\ tok' = tok
              /\ it' = it
              /\ tok.beginning <= tok.end
              /\ it.off = tok.end + 1
              /\ CharAt(src, tok.beginning) \in InstructionChars
              /\ \A off \in tok.beginning..tok.end :
                     CharAt(src, off) \in InstructionChars]_vars

\* a second token of two characters behind a comment of two bytes
TokenRangesWitness ==
    /\ pc = "done"
    /\ Len(ir) = 2
    /\ Len(src) >= 2
    /\ src[2].ch = "u2"
    /\ tok.beginning = 3
    /\ tok.end = 4
\* ---------------------------------------------------------------------
\* Claims about the streams of the virtual machine
\* ---------------------------------------------------------------------

\* a read of this step found the reader exhausted
EofStep == vm.state = "running" /\ ~reader.closed /\ reader'.closed

\* C21: when an iteration of Input finds the reader exhausted the run ends
\* in a fatal outcome that reaches the caller of run, and the tape, the
\* current cell included, is what it was before the read
EofIsFatal ==
    [][EofStep => /\ RunOutcome(vm') = "panic"
                  /\ vm'.cause = "eof"
                  /\ vm'.tape = vm.tape
                  /\ vm'.head = vm.head]_vars

\* the second iteration of Input(2) found the end of the stream behind the
\* byte 255 and the cell still holds that byte
EofIsFatalWitness ==
    /\ vm.state = "panicked"
    /\ vm.cause = "eof"
    /\ vm.i = 1
    /\ reader.pos = 1
    /\ cell = CELL_MODULUS - 1

\* C22: a run that ends on the end of the input gives its caller an outcome
\* other than the outcome of a run that ends on another failure of the
\* reader or of the writer
ErrorOutcomesDistinct ==
    (vm.state = "panicked" /\ vm.cause = "eof")
        => RunOutcome(vm) # RunOutcome(Panic("io"))

\* a step into a failure of the reader or of the writer
FailureStep ==
    vm.state = "running" /\ vm'.state = "panicked" /\ vm'.cause \in {"eof", "io"}

\* C23: a failed read or write ends the run at once: the failing step writes
\* no byte, consumes no byte and leaves the tape and the position alone, and
\* no step follows it, the remaining iterations of the same Input(n) or
\* Output(n) included
AbortIsImmediate ==
    [][/\ FailureStep => /\ WrittenBytes(writer') = WrittenBytes(writer)
                         /\ reader'.pos = reader.pos
                         /\ vm'.tape = vm.tape
                         /\ vm'.pc = vm.pc
                         /\ vm'.i = vm.i
       /\ vm.state = "panicked" => UNCHANGED <<vm, reader, writer>>]_vars

\* the first write of Output(2) failed with an instruction behind it
AbortIsImmediateWitness ==
    /\ vm.state = "panicked"
    /\ vm.cause = "io"
    /\ ~done
    /\ ir_instruction = Instr("Output", 2)
    /\ vm.i = 0
    /\ vm.pc + 1 < Len(ir)
    /\ writer = <<>>

\* C24: every step of the VM that reads from the reader, each iteration of
\* Input(n) for itself, flushes the writer right before the read
FlushBeforeRead ==
    [][(vm.state = "running" /\ reader' # reader)
           => writer' = Append(writer, Flush)]_vars

\* `.,,`: a write, then a flush before each of the two reads
FlushBeforeReadWitness ==
    /\ vm.state = "halted"
    /\ reader.pos = 2
    /\ writer = <<Write(0), Flush, Flush>>

RECURSIVE Units(_, _)
\* the sum of the payloads of the instructions of a kind among the first n
Units(kind, n) ==
    IF n = 0
    THEN 0
    ELSE Units(kind, n - 1) + (IF ir[n].k = kind THEN ir[n].a ELSE 0)

LoopFree == \A j \in 1..Len(ir) : ir[j].k \notin {"Open", "Close"}

\* one step of the VM on an instruction of this kind
StepOf(kind) ==
    vm.state = "running" /\ vm' # vm /\ ~done /\ ir_instruction.k = kind

\* C25: an iteration of Output appends the current cell to the output and
\* changes nothing else, an iteration of Input consumes the next byte of the
\* input and leaves it in the current cell, no other instruction touches a
\* stream, and a program without loops that halts has written and consumed
\* as many bytes as its Output and Input payloads add up to
IOExact ==
    /\ [][/\ (StepOf("Output") /\ vm'.state = "running")
              => /\ writer' = Append(writer, Write(cell))
                 /\ reader' = reader
                 /\ vm'.tape = vm.tape
                 /\ vm'.head = vm.head
          /\ (StepOf("Input") /\ vm'.state = "running")
              => /\ reader'.pos = reader.pos + 1
                 /\ SubSeq(reader'.stream, 1, reader.pos)
                        = SubSeq(reader.stream, 1, reader.pos)
                 /\ Cell(vm'.tape, vm'.head) = reader'.stream[reader'.pos]
                 /\ vm'.head = vm.head
                 /\ WrittenBytes(writer') = WrittenBytes(writer)
          /\ (vm.state = "running" /\ vm' # vm /\ ~done
                /\ ir_instruction.k \notin {"Input", "Output"})
              => /\ reader' = reader
                 /\ writer' = writer]_vars
    /\ [](vm.state = "halted" /\ LoopFree
            => /\ Len(WrittenBytes(writer)) = Units("Output", Len(ir))
               /\ reader.pos = Units("Input", Len(ir)))

\* Input(2) and Output(1): the input 1, 255 is consumed and 255 is written
IOExactWitness ==
    /\ vm.state = "halted"
    /\ ir = <<Instr("Input", 2), Instr("Output", 1)>>
    /\ reader.stream = <<1, CELL_MODULUS - 1>>
    /\ reader.pos = 2
    /\ WrittenBytes(writer) = <<CELL_MODULUS - 1>>
    /\ cell = CELL_MODULUS - 1

RECURSIVE Depth(_, _)
\* the `[` less the `]` among the blocks a..b of the source
Depth(a, b) ==
    IF b < a
    THEN 0
    ELSE Depth(a, b - 1) + (CASE src[b].ch = "[" -> 1
                              [] src[b].ch = "]" -> -1
                              [] OTHER -> 0)

\* the `]` that closes the `[` at block o
CloseOf(o) ==
    CHOOSE c \in (o + 1)..Len(src) :
        /\ Depth(o, c) = 0
        /\ \A d \in o..(c - 1) : Depth(o, d) > 0

\* the `[` that the `]` at block c closes
OpenOf(c) ==
    CHOOSE o \in 1..(c - 1) : src[o].ch = "[" /\ CloseOf(o) = c

\* the first instruction of the source is a `[`
LeadingLoop == NextInstr(1) <= Len(src) /\ src[NextInstr(1)].ch = "["

\* C27: a loop that is the first instruction of a program is skipped as a
\* whole by the baseline: the pc is never on an instruction inside it, and
\* until the pc is past its `]` nothing was read or written and the tape and
\* the head are as at the start; from its `]` the pc goes to the instruction
\* behind it and nothing else changes
LeadingLoopSkipped ==
    /\ []((base.state # "idle" /\ LeadingLoop) =>
            /\ ~(NextInstr(1) < base.blk /\ base.blk < CloseOf(NextInstr(1)))
            /\ base.blk <= CloseOf(NextInstr(1)) =>
                   /\ base.out = <<>>
                   /\ base.pos = 0
                   /\ reader = NewReader
                   /\ base.head = 0
                   /\ base.tape = NoBase.tape)
    /\ [][(/\ LeadingLoop
           /\ base.state = "running"
           /\ base.blk = CloseOf(NextInstr(1))
           /\ base' # base)
            => base' = [base EXCEPT
                          !.blk = NextInstr(CloseOf(NextInstr(1)) + 1)]]_vars

\* `[[,]],.`: the loop was skipped and the byte 255 read behind it was
\* written
LeadingLoopSkippedWitness ==
    /\ base.state = "halted"
    /\ Len(src) = 7
    /\ LeadingLoop
    /\ CloseOf(1) = 5
    /\ src[3].ch = ","
    /\ base.pos = 1
    /\ base.out = <<CELL_MODULUS - 1>>

\* a step of the baseline on a `[` with the cell at zero
ZeroOpenStep ==
    BaseAt("[") /\ Cell(base.tape, base.head) = 0 /\ base' # base

\* a step of the baseline on a `]` with the cell not at zero
TakenCloseStep ==
    BaseAt("]") /\ Cell(base.tape, base.head) # 0 /\ base' # base

\* C28, as stated: in the baseline a `[` on a zero cell leaves the pc on the
\* instruction after its own `]`, a `]` on a cell that is not zero leaves
\* it on the instruction after its own `[`, and the pc stays in the program
BracketsTransferAfter ==
    [][/\ ZeroOpenStep =>
              base' = [base EXCEPT !.blk = NextInstr(CloseOf(base.blk) + 1)]
       /\ TakenCloseStep =>
              /\ base'.blk = NextInstr(OpenOf(base.blk) + 1)
              /\ base'.blk <= base.blk
       /\ base'.blk \in 1..(Len(src) + 1)]_vars

\* C28, amended: in the baseline a `[` on a zero cell leaves the pc on its
\* own `]` (same depth, not an inner or an outer one), which then falls
\* through; a `]` on a cell that is not zero leaves the pc on the
\* instruction after its own `[`; the pc stays in the program, and a
\* bracket step changes nothing but the pc
BracketsTransfer ==
    [][/\ ZeroOpenStep =>
              base' = [base EXCEPT !.blk = CloseOf(base.blk)]
       /\ TakenCloseStep =>
              /\ base' = [base EXCEPT !.blk = NextInstr(OpenOf(base.blk) + 1),
                                      !.jumps = base.jumps + 1]
              /\ base'.blk <= base.blk
       /\ base'.blk \in 1..(Len(src) + 1)
       /\ base'.blk <= Len(src) => src[base'.blk].ch \in InstructionChars]_vars

\* `+[-[[]]]`: the `[` at depth two, on a zero cell, has left the pc on its
\* own `]`, behind the inner one and before the outer one
BracketsTransferWitness ==
    /\ base.state = "running"
    /\ Len(src) = 8
    /\ src[4].ch = "["
    /\ src[5].ch = "["
    /\ CloseOf(4) = 7
    /\ base.blk = 7
    /\ Cell(base.tape, base.head) = 0

\* ---------------------------------------------------------------------
\* Claims about brackets and cancelled groups in the fuser and the
\* assembler
\* ---------------------------------------------------------------------

\* C31: Open and Close never fuse: no iteration of the inner loop of the
\* fuser has a bracket as its running instruction or takes a bracket, a
\* token that is a bracket has beginning = end = the byte offset of that
\* bracket, and between two tokens the bracket stack holds one entry for
\* every `[` read so far that no `]` has closed
BracketsNeverFuse ==
    /\ [][(pc = "fuse" /\ it' # it) =>
             /\ tok.instruction.k \notin {"Open", "Close"}
             /\ PeekChar \notin {"[", "]"}]_vars
    /\ []((pc = "fuse" /\ tok.instruction.k \in {"Open", "Close"}) =>
             /\ tok.beginning = tok.end
             /\ tok.end + 1 = it.off
             /\ Slice(src, tok.beginning, tok.end)
                    = <<to_string(tok.instruction)>>)
    /\ []((pc = "scan" /\ result = Pending) =>
             Len(brackets) = Depth(1, it.blk - 1))

\* `[[[`: three Opens and three entries on the bracket stack
BracketsNeverFuseWitness ==
    /\ pc = "scan"
    /\ ~HasNext
    /\ Len(src) = 3
    /\ Len(brackets) = 3
    /\ \A j \in 1..3 : /\ ir[j].k = "Open"
                       /\ brackets[j].jump_index = j - 1
                       /\ brackets[j].index = j - 1

\* the body of the loop that the token closes is the single Sub(1)
ClosesZeroLoop ==
    /\ Len(ir) = Top(brackets).jump_index + 2
    /\ ir[Len(ir)] = Instr("Sub", 1)

\* C32: a step changes the IR only if it is a step of the assembler that
\* goes on to the next token, and such a step changes it in one of three
\* ways: on a `]` behind the loop body Sub(1) it cuts the IR down to the
\* index of the Open and appends Zero; on any other `]` it appends the
\* Close and changes the payload of the Open at the top of the bracket
\* stack and no other entry; on any other token it appends one
\* instruction and leaves every entry alone
AssemblerFrame ==
    [][/\ ir' # ir => (pc = "fuse" /\ pc' = "scan")
       /\ (pc = "fuse" /\ pc' = "scan") =>
            IF tok.instruction.k # "Close"
            THEN /\ Len(ir') = Len(ir) + 1
                 /\ SubSeq(ir', 1, Len(ir)) = ir
            ELSE LET open_idx == Top(brackets).jump_index
                 IN  IF ClosesZeroLoop
                     THEN /\ Len(ir') = open_idx + 1
                          /\ ir'[open_idx + 1] = Zero
                          /\ SubSeq(ir', 1, open_idx) = SubSeq(ir, 1, open_idx)
                     ELSE /\ Len(ir') = Len(ir) + 1
                          /\ ir'[Len(ir')].k = "Close"
                          /\ ir'[open_idx + 1].k = "Open"
                          /\ ir[open_idx + 1].k = "Open"
                          /\ \A j \in 1..Len(ir) :
                                 j # open_idx + 1 => ir'[j] = ir[j]]_vars

\* `[[-]+]`: a truncation inside a loop, an append, and a Close that
\* changed the payload of its Open
AssemblerFrameWitness ==
    /\ pc = "done"
    /\ ir = <<Instr("Open", 3), Zero, Instr("Add", 1), Instr("Close", 0)>>

\* the block of the first `]` of the source that no `[` before it opens, or
\* 0 when every `]` is matched
FirstUnmatchedClose ==
    LET unmatched == {c \in 1..Len(src) : Depth(1, c) < 0}
    IN  IF unmatched = {} THEN 0
        ELSE CHOOSE c \in unmatched : \A d \in unmatched : c <= d

\* C33: the parse is one pass that terminates: the iterator only moves
\* forward and by one character at a time, a character becomes part of a
\* token only in a step that consumes it, the parse returns only with the
\* source exhausted or on the first unmatched `]`, with nothing behind
\* that `]` consumed, and every parse returns
SinglePass ==
    /\ [][/\ it' # it => (HasNext /\ it' = Advance)
          /\ (tok' # tok /\ pc' # "scan" /\ pc # "done") => it' # it]_vars
    /\ [](pc = "done" =>
            \/ ~HasNext /\ it.off = BlockStart(src, Len(src) + 1)
            \/ /\ result = MismatchedBracket(
                               BlockStart(src, FirstUnmatchedClose), "]")
               /\ FirstUnmatchedClose > 0
               /\ it.blk = FirstUnmatchedClose + 1)
    /\ <>(pc = "done")

\* `+]c]`: the parse has returned on the first `]` with two characters
\* not consumed
SinglePassWitness ==
    /\ pc = "done"
    /\ Len(src) = 4
    /\ FirstUnmatchedClose = 2
    /\ src[3].ch = "c"
    /\ it.blk = 3
    /\ result = MismatchedBracket(1, "]")
    /\ ir = <<Instr("Add", 1)>>

\* C34: in every state of the parse the IR indices on the bracket stack
\* increase strictly from the bottom to the top, each is below the length
\* of the IR and the IR holds an Open there, and the byte offsets on the
\* stack increase strictly and are the offsets of `[` characters; the
\* truncation of the peephole keeps this
BracketStackInvariant ==
    \A j \in 1..Len(brackets) :
        /\ 0 <= brackets[j].jump_index
        /\ brackets[j].jump_index < Len(ir)
        /\ ir[brackets[j].jump_index + 1].k = "Open"
        /\ Slice(src, brackets[j].index, brackets[j].index) = <<"[">>
        /\ j > 1 => /\ brackets[j - 1].jump_index < brackets[j].jump_index
                    /\ brackets[j - 1].index < brackets[j].index

\* `[[-]`: the peephole has cut the inner loop away and the entry of the
\* outer `[` still points at its Open
BracketStackInvariantWitness ==
    /\ pc = "scan"
    /\ Len(src) = 4
    /\ ~HasNext
    /\ ir = <<Instr("Open", 1), Zero>>
    /\ Len(brackets) = 1
    /\ brackets[1].jump_index = 0
    /\ brackets[1].index = 0

\* an IR with its bracket payloads moved up by n
Shift(p, n) ==
    [j \in 1..Len(p) |->
        IF p[j].k \in {"Open", "Close"} THEN Instr(p[j].k, p[j].a + n)
        ELSE p[j]]

\* C35: a second call of parse on the Parser of a successful parse keeps
\* the IR and the warnings it finds and appends to them; after a second
\* successful parse the IR is the IR of the first source followed by the
\* IR that the second source gives a Parser of its own, with the bracket
\* payloads of that part moved up by the length of the first part, and the
\* bracket bijection holds on the whole
ParseAppends ==
    /\ [][first'.run = "again" =>
             /\ Len(ir') >= first'.pos
             /\ SubSeq(ir', 1, first'.pos) = SubSeq(ir, 1, first'.pos)
             /\ Len(warnings') >= Len(warnings)
             /\ SubSeq(warnings', 1, Len(warnings)) = warnings]_vars
    /\ []((first.run = "again" /\ pc = "done" /\ result = Ok) =>
             /\ Len(ir) = first.pos + Len(first.out)
             /\ ir = SubSeq(ir, 1, first.pos) \o Shift(first.out, first.pos)
             /\ BracketBijection)

\* `[]` then `c[+]`: the second loop is Open(4), Add(1), Close(2)
ParseAppendsWitness ==
    /\ first.run = "again"
    /\ pc = "done"
    /\ result = Ok
    /\ first.out = <<Instr("Open", 2), Instr("Add", 1), Instr("Close", 0)>>
    /\ ir = <<Instr("Open", 1), Instr("Close", 0),
              Instr("Open", 4), Instr("Add", 1), Instr("Close", 2)>>

\* ---------------------------------------------------------------------
\* Claims about what a step of the virtual machine leaves alone
\* ---------------------------------------------------------------------

\* C36: a step of the VM changes no cell but the cell under the head it
\* had before the step; Left, Right, Output, Open, Close and Nop leave the
\* whole tape as it is; Add, Sub, Input, Zero, Output, Open, Close and Nop
\* leave the head as it is; no step changes the IR
TapeFrame ==
    [][vm' # vm =>
         /\ ir' = ir
         /\ \A h \in DOMAIN vm.tape \cup DOMAIN vm'.tape :
                h # vm.head => Cell(vm'.tape, h) = Cell(vm.tape, h)
         /\ (vm.state = "running" /\ ~done) =>
              /\ ir_instruction.k \in {"Left", "Right", "Output", "Open",
                                       "Close", "NOP"}
                    => vm'.tape = vm.tape
              /\ ir_instruction.k \in {"Add", "Sub", "Input", "Zero",
                                       "Output", "Open", "Close", "NOP"}
                    => vm'.head = vm.head]_vars

\* Add(1), Right(1), Add(2), Zero: the Zero has cleared the cell 1 and
\* the cell 0 still holds 1
TapeFrameWitness ==
    /\ vm.state = "running"
    /\ vm.pc = 4
    /\ ir[4] = Zero
    /\ vm.head = 1
    /\ Cell(vm.tape, 0) = 1
    /\ Cell(vm.tape, 1) = 0

\* the source made of these characters, one block each
Text(chars) == [j \in 1..Len(chars) |-> Unit(chars[j])]

\* C37: a group that has cancelled to Nop ends there: the fuser takes no
\* further character into it and the assembler appends the Nop with its
\* warning, so `+-+-` gives two Nops and two warnings and `+-+` gives a
\* Nop and Add(1)
NopEndsGroup ==
    /\ [][(pc = "fuse" /\ tok.instruction = NOP) =>
             /\ it' = it
             /\ tok' = tok
             /\ pc' = "scan"
             /\ ir' = Append(ir, NOP)
             /\ Len(warnings') = Len(warnings) + 1]_vars
    /\ []((pc = "done" /\ src = Text(<<"+", "-", "+", "-">>)) =>
             /\ ir = <<NOP, NOP>>
             /\ warnings = <<Warning(0, 1, <<"+", "-">>),
                             Warning(2, 3, <<"+", "-">>)>>)
    /\ []((pc = "done" /\ src = Text(<<"+", "-", "+">>)) =>
             /\ ir = <<NOP, Instr("Add", 1)>>
             /\ warnings = <<Warning(0, 1, <<"+", "-">>)>>)

\* `><<>` has been parsed to the end: two Nops, two warnings
NopEndsGroupWitness ==
    /\ pc = "done"
    /\ src = Text(<<">", "<", "<", ">">>)
    /\ ir = <<NOP, NOP>>
    /\ Len(warnings) = 2
    /\ warnings[2].beginning = 2

\* C39, as stated: the classifier gives `[` and `]` the instructions Open
\* and Close with payload 0, the six other instruction characters their
\* kind with payload 1, and no instruction for any other character
ClassifierPayloads ==
    [][(pc = "scan" /\ it' # it) =>
          CASE PeekChar = "[" ->
                   tok'.instruction = Instr("Open", 0) /\ pc' = "fuse"
            [] PeekChar = "]" ->
                   tok'.instruction = Instr("Close", 0) /\ pc' = "fuse"
            [] PeekChar \in InstructionChars \ {"[", "]"} ->
                   /\ tok'.instruction.k \in CountedKinds
                   /\ tok'.instruction.a = 1
                   /\ pc' = "fuse"
            [] OTHER -> tok' = tok /\ pc' = "scan"]_vars

\* ---------------------------------------------------------------------
\* Claims about the default interpreter
\* ---------------------------------------------------------------------

\* C38: Lexemes::from_str and Instructions::from_str accept the same
\* sources; in an accepted program every Open carries the index of a
\* Close behind it that carries the index of that Open, whatever runs were
\* dropped on the way; and on the same input a run of Lexemes::execute
\* and a run of Instructions::execute end the same way, having written
\* the same bytes and consumed the same input
LexemesEquivalence ==
    /\ pc = "done" => ((result = Ok) <=> (from_str(src) = "Ok"))
    /\ (pc = "done" /\ result = Ok) =>
           \A i \in 0..(Len(ir) - 1) :
               /\ ir[i + 1].k = "Open" =>
                      /\ i < ir[i + 1].a
                      /\ ir[i + 1].a < Len(ir)
                      /\ ir[ir[i + 1].a + 1] = Instr("Close", i)
               /\ ir[i + 1].k = "Close" =>
                      /\ ir[i + 1].a < i
                      /\ ir[ir[i + 1].a + 1] = Instr("Open", i)
               /\ ir[i + 1].k \notin {"Open", "Close"} => ir[i + 1].a # 0
    /\ BaseFinished =>
           /\ base.state = vm.state
           /\ base.out = WrittenBytes(writer)
           /\ base.pos = reader.pos

\* `+[-+-[+-]].`: the runs `+-` inside the inner loop were dropped, both
\* interpreters have halted and have written the byte 0
LexemesEquivalenceWitness ==
    /\ BaseFinished
    /\ Len(src) = 11
    /\ ir = <<Instr("Manipulate", 1), Instr("Open", 5),
              Instr("Manipulate", -1), Instr("Open", 4), Instr("Close", 3),
              Instr("Close", 1), Instr("Output", 1)>>
    /\ vm.state = "halted"
    /\ base.out = <<0>>
====
